---- MODULE Spec2Model ----
(***************************************************************************)
(* A model of invert-indexeddb: the inverted index kept in IndexedDB       *)
(* (InvertedIndex over InvertedIndexStore / DocTermsStore), the document   *)
(* CRUD of InvertedIndexDB, and the cursor search of Searcher.             *)
(* Every IndexedDB request is one atomic step; a call suspends between     *)
(* two of its requests.                                                    *)
(***************************************************************************)
EXTENDS Integers, Sequences, FiniteSets, TLC

(***************************************************************************)
(* Bounds of the model.                                                    *)
(***************************************************************************)
MaxDocs == 3

MaxRecords == 2

MaxLimit == 2

MaxCalls == 3

\* the longest string a pure function is applied to
MaxLen == 3
\* the store requests that fail in one run
MaxFailures == 1

(***************************************************************************)
(* Values.  An optional value (a property that may be undefined) is a      *)
(* sequence of length at most one.  A string is a sequence of characters.  *)
(* A JavaScript Set is a sequence without duplicates (insertion order).    *)
(***************************************************************************)
None == <<>>

Some(x) == <<x>>

DocIds == 1..MaxDocs

RecordIds == 1..MaxRecords

Procs == {1, 2}

\* the timestamps of stored documents
Times == {1, 2}

\* the readings of Date.now() while documents are added and updated: the
\* timestamps play no part in index maintenance, one reading keeps SpecDB small
ClockReadings == {1}

Range(s) == {s[k] : k \in DOMAIN s}

\* new Set(array): duplicates dropped, first occurrences kept in order
RECURSIVE NewSet(_)
NewSet(s) ==
  IF s = <<>> THEN <<>>
  ELSE LET init == NewSet(SubSeq(s, 1, Len(s) - 1))
           last == s[Len(s)]
       IN IF last \in Range(init) THEN init ELSE Append(init, last)

\* Set.prototype.add
SetAdd(s, x) == IF x \in Range(s) THEN s ELSE Append(s, x)

\* Set.prototype.delete
SetDelete(s, x) == SelectSeq(s, LAMBDA y : y # x)

(***************************************************************************)
(* Characters and MixedTokenizer.                                          *)
(***************************************************************************)
\* the characters of the model, in code-point order
Alphabet == <<" ", "'", "-", ".", "1", "2", "A", "B", "a", "b", "zh1", "zh2">>

CharCode(c) == CHOOSE k \in DOMAIN Alphabet : Alphabet[k] = c

toLowerCase(c) == CASE c = "A" -> "a" [] c = "B" -> "b" [] OTHER -> c

StrLower(s) == [k \in DOMAIN s |-> toLowerCase(s[k])]

\* chineseCharRegex, englishCharRegex, digitRegex as character classes
ChineseChars == {"zh1", "zh2"}

EnglishChars == {"A", "B", "a", "b"}

DigitChars == {"1", "2"}

isChinese(c) == c \in ChineseChars

isEnglish(c) == c \in EnglishChars

isDigit(c) == c \in DigitChars

isSpace(c) == c = " "

shouldSkip(c) == isSpace(c) \/ (~isChinese(c) /\ ~isEnglish(c) /\ ~isDigit(c))

\* first index >= i (1-based) whose character is not of the class
RECURSIVE RunEnd(_, _, _)
RunEnd(text, i, class) ==
  IF i <= Len(text) /\ text[i] \in class THEN RunEnd(text, i + 1, class) ELSE i

\* /[a-zA-Z]+(?:[-'][a-zA-Z]+)*/ matched at i: the index after the match
RECURSIVE EnglishWordEnd(_, _)
EnglishWordEnd(text, i) ==
  LET e == RunEnd(text, i, EnglishChars)
  IN IF e + 1 <= Len(text) /\ text[e] \in {"-", "'"} /\ isEnglish(text[e + 1])
     THEN EnglishWordEnd(text, e + 1)
     ELSE e

\* /\d+(?:\.\d+)?/ matched at i: the index after the match
NumberEnd(text, i) ==
  LET e == RunEnd(text, i, DigitChars)
  IN IF e + 1 <= Len(text) /\ text[e] = "." /\ isDigit(text[e + 1])
     THEN RunEnd(text, e + 1, DigitChars)
     ELSE e

Token(term, position, length) ==
  [term |-> term, position |-> position, length |-> length]

\* generateNGrams(text, n)
generateNGrams(text, n) ==
  IF text = <<>> \/ Len(text) < n THEN <<text>>
  ELSE [k \in 1..(Len(text) - n + 1) |-> SubSeq(text, k, k + n - 1)]

\* processChineseChars where a run of more than two characters is one token
processChineseCharsWholeRun(text, i) ==
  LET e == RunEnd(text, i, ChineseChars)
      chineseText == SubSeq(text, i, e - 1)
      chineseLength == Len(chineseText)
      singles == [j \in 1..chineseLength |->
                    Token(<<chineseText[j]>>, (i - 1) + (j - 1), 1)]
      bigrams == IF chineseLength >= 2
                 THEN LET g == generateNGrams(chineseText, 2)
                      IN [j \in DOMAIN g |-> Token(g[j], (i - 1) + (j - 1), 2)]
                 ELSE <<>>
  IN [tokens |-> IF chineseLength > 2
                 THEN <<Token(chineseText, i - 1, chineseLength)>>
                 ELSE singles \o bigrams,
      nextPos |-> e]

\* processChineseChars: the run's single characters, then its 2-grams
processChineseChars(text, i) ==
  LET e == RunEnd(text, i, ChineseChars)
      chineseText == SubSeq(text, i, e - 1)
      chineseLength == Len(chineseText)
      singles == [j \in 1..chineseLength |->
                    Token(<<chineseText[j]>>, (i - 1) + (j - 1), 1)]
      bigrams == IF chineseLength >= 2
                 THEN LET g == generateNGrams(chineseText, 2)
                      IN [j \in DOMAIN g |-> Token(g[j], (i - 1) + (j - 1), 2)]
                 ELSE <<>>
  IN [tokens |-> singles \o bigrams, nextPos |-> e]

\* processToken at 1-based index i (token positions are 0-based offsets)
processToken(text, i) ==
  IF isEnglish(text[i])
  THEN LET e == EnglishWordEnd(text, i)
       IN [tokens |-> <<Token(StrLower(SubSeq(text, i, e - 1)), i - 1, e - i)>>,
           nextPos |-> e]
  ELSE IF isDigit(text[i])
  THEN LET e == NumberEnd(text, i)
       IN [tokens |-> <<Token(SubSeq(text, i, e - 1), i - 1, e - i)>>,
           nextPos |-> e]
  ELSE IF isChinese(text[i])
  THEN processChineseChars(text, i)
  ELSE [tokens |-> <<>>, nextPos |-> i + 1]

RECURSIVE tokenizeFrom(_, _)
tokenizeFrom(text, i) ==
  IF i > Len(text) THEN <<>>
  ELSE IF shouldSkip(text[i]) THEN tokenizeFrom(text, i + 1)
  ELSE LET r == processToken(text, i)
       IN r.tokens \o tokenizeFrom(text, r.nextPos)

\* MixedTokenizer.tokenize
tokenize(text) == IF text = <<>> THEN <<>> ELSE tokenizeFrom(text, 1)

\* new Set(tokens.map((t) => t.term))
TermSet(text) ==
  LET tokens == tokenize(text)
  IN NewSet([k \in DOMAIN tokens |-> tokens[k].term])

\* the texts callers index
Texts ==
  { <<"a">>,
    <<"B", " ", "a", ".", "b">> }

\* the title fields of the documents callers add: a text, or the empty string
Titles == Texts \cup {<<>>}

\* string order of terms (IndexedDB key order)
RECURSIVE StrLess(_, _)
StrLess(s, t) ==
  IF t = <<>> THEN FALSE
  ELSE IF s = <<>> THEN TRUE
  ELSE IF s[1] = t[1] THEN StrLess(Tail(s), Tail(t))
  ELSE CharCode(s[1]) < CharCode(t[1])

\* a finite set of strings as the sequence in key order
RECURSIVE SortedStrings(_)
SortedStrings(S) ==
  IF S = {} THEN <<>>
  ELSE LET m == CHOOSE x \in S : \A y \in S \ {x} : StrLess(x, y)
       IN <<m>> \o SortedStrings(S \ {m})

(***************************************************************************)
(* State.                                                                  *)
(***************************************************************************)
VARIABLES
  invertedIndex,  \* store 'invertedIndex': term -> {term, docIds (array), count}
  docTerms,       \* store 'docTerms': the rows {docId, term}
  documents,      \* store 'documents': docId -> document
  docFields,      \* store 'docFields': docId -> fields (taken to exist:
                  \* db.ts creates documents, invertedIndex and docTerms only)
  calls,          \* the calls in progress, one per slot
  lastId,         \* the last document id generateId returned
  search,         \* the chain of searchWithCursor calls
  made,           \* the number of calls made while others may be in progress
  applied,        \* the last application of a pure function: arguments and value
  instance,       \* the InvertedIndexDB instance: initialized, its database
                  \* connection, the init() calls in progress
  iteration       \* the iterateAll call in progress: its cursor, queue and flags

vars == <<invertedIndex, docTerms, documents, docFields, calls, lastId, search, made,
          applied, instance, iteration>>

stores == <<invertedIndex, docTerms, documents, docFields>>

(***************************************************************************)
(* InvertedIndexStore and DocTermsStore requests.                          *)
(***************************************************************************)
InvertedIndexItem(term, docIds, count) ==
  [term |-> term, docIds |-> docIds, count |-> count]

\* Array.from(set) and new Set(array): the stored array keeps the set's order
ArrayFrom(set) == set

\* InvertedIndexStore.get: the stored item with its array turned into a Set
StoreGet(store, term) ==
  IF term \in DOMAIN store
  THEN LET item == store[term]
           docIds == NewSet(item.docIds)
       IN Some(InvertedIndexItem(item.term, docIds,
                 IF item.count # 0 THEN item.count ELSE Len(docIds)))
  ELSE None

\* InvertedIndexStore.put
StorePut(store, item) ==
  [t \in DOMAIN store \cup {item.term} |->
     IF t = item.term
     THEN InvertedIndexItem(item.term, ArrayFrom(item.docIds), item.count)
     ELSE store[t]]

\* InvertedIndexStore.add succeeds only when the key is free (keyPath 'term')
StoreAddFails(store, item) == item.term \in DOMAIN store

\* InvertedIndexStore.delete
StoreDelete(store, term) == [t \in DOMAIN store \ {term} |-> store[t]]

\* InvertedIndexStore.getAllKeys
getAllTerms(store) == SortedStrings(DOMAIN store)

DocTerm(docId, term) == [docId |-> docId, term |-> term]

\* DocTermsStore.getByDocId where only the first row is returned
getByDocIdFirst(rows, docId) ==
  LET terms == SortedStrings({r.term : r \in {x \in rows : x.docId = docId}})
  IN [k \in DOMAIN terms \cap {1} |-> DocTerm(docId, terms[k])]

\* DocTermsStore.getByDocId: the rows of the docId index, in key order
getByDocId(rows, docId) ==
  LET terms == SortedStrings({r.term : r \in {x \in rows : x.docId = docId}})
  IN [k \in DOMAIN terms |-> DocTerm(docId, terms[k])]

\* DocTermsStore.deleteByDocId where the cursor stops after its first row
deleteByDocIdOneRow(rows, docId) ==
  LET found == getByDocId(rows, docId)
  IN IF found = <<>> THEN rows ELSE rows \ {found[1]}

\* DocTermsStore.deleteByDocId
deleteByDocId(rows, docId) == {r \in rows : r.docId # docId}

(***************************************************************************)
(* Calls.  A call is a record; pc names the request it waits for.          *)
(***************************************************************************)
EmptyDoc ==
  [docId |-> None, createdAt |-> None, updatedAt |-> None,
   title |-> <<>>, terms |-> None]

IdleCall ==
  [op |-> "none", pc |-> "idle", docId |-> None, doc |-> EmptyDoc,
   terms |-> <<>>, removed |-> <<>>, i |-> None, item |-> None, sets |-> <<>>,
   result |-> None]

NoCallActive == \A q \in Procs : calls[q].pc = "idle"

\* where a call goes on after InvertedIndex.indexDocument resolved
AfterIndex(op) == IF op = "indexDocument" THEN "done" ELSE "saveTerms"

\* where a call goes on after InvertedIndex.removeDocumentIndex resolved
AfterRemove(op) ==
  CASE op = "removeDocumentIndex" -> "done"
    [] op = "updateDocument" -> "saveDocument"
    [] OTHER -> "deleteDocument"

\* what InvertedIndex.indexDocument resolves with: Promise<void>, no value
indexDocumentReturn(terms) == None

\* InvertedIndex.indexDocument, up to its first request
EnterIndexDocument(c, text) ==
  LET terms == TermSet(text)
  IN IF terms = <<>>
     THEN [c EXCEPT !.terms = terms, !.result = indexDocumentReturn(terms),
                    !.pc = AfterIndex(c.op)]
     ELSE [c EXCEPT !.terms = terms, !.i = Some(1), !.pc = "addGet"]

\* the loops of indexDocument: the next term, then the doc-term rows
NextAdd(c) ==
  IF c.i[1] < Len(c.terms)
  THEN [c EXCEPT !.i = Some(c.i[1] + 1), !.item = None, !.pc = "addGet"]
  ELSE [c EXCEPT !.i = Some(1), !.item = None, !.pc = "saveDocTerm"]

\* the loop of removeDocumentIndex: the next term, then the doc-term rows
NextRemove(c) ==
  IF c.i[1] < Len(c.terms)
  THEN [c EXCEPT !.i = Some(c.i[1] + 1), !.item = None, !.pc = "rmGet"]
  ELSE [c EXCEPT !.i = None, !.item = None, !.pc = "removeDocTerms"]

(***************************************************************************)
(* InvertedIndex.indexDocument(docId, text)                                *)
(***************************************************************************)
indexDocument(p, docId, text) ==
  /\ calls[p].pc = "idle"
  /\ calls' = [calls EXCEPT ![p] =
       EnterIndexDocument(
         [IdleCall EXCEPT !.op = "indexDocument", !.docId = Some(docId),
                          !.doc = [EmptyDoc EXCEPT !.title = text]],
         text)]
  /\ UNCHANGED <<stores, lastId, search>>

\* addTermToIndex where a document is added without looking for it in the set
AddDecisionAlwaysPut(c, existingItem) ==
  IF existingItem # None
  THEN [c EXCEPT !.item = Some(InvertedIndexItem(existingItem[1].term,
                                 Append(existingItem[1].docIds, c.docId[1]),
                                 existingItem[1].count + 1)),
                 !.pc = "addPut"]
  ELSE [c EXCEPT !.item = Some(InvertedIndexItem(c.terms[c.i[1]],
                                 NewSet(<<c.docId[1]>>), 1)),
                 !.pc = "addAdd"]

\* addTermToIndex where the count is kept instead of recomputed
AddDecisionStaleCount(c, existingItem) ==
  IF existingItem # None
  THEN IF c.docId[1] \notin Range(existingItem[1].docIds)
       THEN [c EXCEPT !.item = Some(InvertedIndexItem(existingItem[1].term,
                                      SetAdd(existingItem[1].docIds, c.docId[1]),
                                      existingItem[1].count)),
                      !.pc = "addPut"]
       ELSE NextAdd(c)
  ELSE [c EXCEPT !.item = Some(InvertedIndexItem(c.terms[c.i[1]],
                                 NewSet(<<c.docId[1]>>), 1)),
                 !.pc = "addAdd"]

\* addTermToIndex after its get: the item to write and the request to issue
AddDecision(c, existingItem) ==
  IF existingItem # None
  THEN IF c.docId[1] \notin Range(existingItem[1].docIds)
       THEN LET docIds == SetAdd(existingItem[1].docIds, c.docId[1])
            IN [c EXCEPT !.item = Some(InvertedIndexItem(existingItem[1].term,
                                         docIds, Len(docIds))),
                         !.pc = "addPut"]
       ELSE NextAdd(c)
  ELSE [c EXCEPT !.item = Some(InvertedIndexItem(c.terms[c.i[1]],
                                 NewSet(<<c.docId[1]>>), 1)),
                 !.pc = "addAdd"]

\* addTermToIndex where the read of the next term is issued when the read of
\* the current one returns, before anything is written
AddGetAhead(p) ==
  /\ calls[p].pc = "addGet"
  /\ calls' = [calls EXCEPT ![p] = NextAdd(calls[p])]
  /\ UNCHANGED <<stores, lastId, search>>

\* addTermToIndex: await invertedIndexStore.get(term)
AddGet(p) ==
  /\ calls[p].pc = "addGet"
  /\ calls' = [calls EXCEPT ![p] =
       AddDecision(calls[p], StoreGet(invertedIndex, calls[p].terms[calls[p].i[1]]))]
  /\ UNCHANGED <<stores, lastId, search>>

\* addTermToIndex where the put replaces the whole set by the new document
AddPutReplace(p) ==
  /\ calls[p].pc = "addPut"
  /\ invertedIndex' = StorePut(invertedIndex,
       InvertedIndexItem(calls[p].item[1].term, <<calls[p].docId[1]>>, 1))
  /\ calls' = [calls EXCEPT ![p] = NextAdd(calls[p])]
  /\ UNCHANGED <<docTerms, documents, docFields, lastId, search>>

\* addTermToIndex where the store adds the document to the set it holds
AddPutMerge(p) ==
  /\ calls[p].pc = "addPut"
  /\ LET term == calls[p].item[1].term
         docIds == IF term \in DOMAIN invertedIndex
                   THEN SetAdd(invertedIndex[term].docIds, calls[p].docId[1])
                   ELSE <<calls[p].docId[1]>>
     IN invertedIndex' = StorePut(invertedIndex,
                           InvertedIndexItem(term, docIds, Len(docIds)))
  /\ calls' = [calls EXCEPT ![p] = NextAdd(calls[p])]
  /\ UNCHANGED <<docTerms, documents, docFields, lastId, search>>

\* addTermToIndex: await invertedIndexStore.put(existingItem)
AddPut(p) ==
  /\ calls[p].pc = "addPut"
  /\ invertedIndex' = StorePut(invertedIndex, calls[p].item[1])
  /\ calls' = [calls EXCEPT ![p] = NextAdd(calls[p])]
  /\ UNCHANGED <<docTerms, documents, docFields, lastId, search>>

\* addTermToIndex: await invertedIndexStore.add(newItem)
AddAdd(p) ==
  /\ calls[p].pc = "addAdd"
  /\ IF StoreAddFails(invertedIndex, calls[p].item[1])
     THEN /\ calls' = [calls EXCEPT ![p].pc = "failed", ![p].item = None]
          /\ UNCHANGED invertedIndex
     ELSE /\ invertedIndex' = StorePut(invertedIndex, calls[p].item[1])
          /\ calls' = [calls EXCEPT ![p] = NextAdd(calls[p])]
  /\ UNCHANGED <<docTerms, documents, docFields, lastId, search>>

\* saveDocTerm: await docTermsStore.put({docId, term})
SaveDocTerm(p) ==
  /\ calls[p].pc = "saveDocTerm"
  /\ docTerms' = docTerms \cup {DocTerm(calls[p].docId[1], calls[p].terms[calls[p].i[1]])}
  /\ calls' = [calls EXCEPT ![p] =
       IF calls[p].i[1] < Len(calls[p].terms)
       THEN [calls[p] EXCEPT !.i = Some(calls[p].i[1] + 1)]
       ELSE [calls[p] EXCEPT !.i = None,
                             !.result = indexDocumentReturn(calls[p].terms),
                             !.pc = AfterIndex(calls[p].op)]]
  /\ UNCHANGED <<invertedIndex, documents, docFields, lastId, search>>

(***************************************************************************)
(* InvertedIndex.removeDocumentIndex(docId)                                *)
(***************************************************************************)
removeDocumentIndex(p, docId) ==
  /\ calls[p].pc = "idle"
  /\ calls' = [calls EXCEPT ![p] =
       [IdleCall EXCEPT !.op = "removeDocumentIndex", !.docId = Some(docId),
                        !.pc = "getDocumentTerms"]]
  /\ UNCHANGED <<stores, lastId, search>>

\* getDocumentTerms: await docTermsStore.getByDocId(docId), the rows' terms as a Set
GetDocumentTerms(p) ==
  /\ calls[p].pc = "getDocumentTerms"
  /\ LET rows == getByDocId(docTerms, calls[p].docId[1])
         terms == NewSet([k \in DOMAIN rows |-> rows[k].term])
     IN calls' = [calls EXCEPT ![p] =
          IF terms = <<>>
          THEN [calls[p] EXCEPT !.terms = terms, !.removed = terms,
                                !.pc = "removeDocTerms"]
          ELSE [calls[p] EXCEPT !.terms = terms, !.removed = terms,
                                !.i = Some(1), !.pc = "rmGet"]]
  /\ UNCHANGED <<stores, lastId, search>>

\* removeTermFromIndex where a document missing from the entry is an error
RemoveDecisionStrict(c, item) ==
  IF item # None /\ c.docId[1] \in Range(item[1].docIds)
  THEN LET docIds == SetDelete(item[1].docIds, c.docId[1])
       IN IF Len(docIds) = 0
          THEN [c EXCEPT !.item = item, !.pc = "rmDelete"]
          ELSE [c EXCEPT !.item = Some(InvertedIndexItem(item[1].term, docIds,
                                         Len(docIds))),
                         !.pc = "rmPut"]
  ELSE [c EXCEPT !.pc = "failed"]

\* removeTermFromIndex where the last document of an entry is left in place
RemoveDecisionKeepLast(c, item) ==
  IF item # None /\ c.docId[1] \in Range(item[1].docIds) /\ Len(item[1].docIds) > 1
  THEN LET docIds == SetDelete(item[1].docIds, c.docId[1])
       IN [c EXCEPT !.item = Some(InvertedIndexItem(item[1].term, docIds, Len(docIds))),
                    !.pc = "rmPut"]
  ELSE NextRemove(c)

\* removeTermFromIndex where an emptied entry is written back
RemoveDecisionPutEmpty(c, item) ==
  IF item # None /\ c.docId[1] \in Range(item[1].docIds)
  THEN LET docIds == SetDelete(item[1].docIds, c.docId[1])
       IN [c EXCEPT !.item = Some(InvertedIndexItem(item[1].term, docIds, Len(docIds))),
                    !.pc = "rmPut"]
  ELSE NextRemove(c)

\* removeTermFromIndex after its get: the item to write and the request to issue
RemoveDecision(c, item) ==
  IF item # None /\ c.docId[1] \in Range(item[1].docIds)
  THEN LET docIds == SetDelete(item[1].docIds, c.docId[1])
       IN [c EXCEPT !.item = Some(InvertedIndexItem(item[1].term, docIds, Len(docIds))),
                    !.pc = IF Len(docIds) = 0 THEN "rmDelete" ELSE "rmPut"]
  ELSE NextRemove(c)

\* removeTermFromIndex: await invertedIndexStore.get(term)
RmGet(p) ==
  /\ calls[p].pc = "rmGet"
  /\ calls' = [calls EXCEPT ![p] =
       RemoveDecision(calls[p], StoreGet(invertedIndex, calls[p].terms[calls[p].i[1]]))]
  /\ UNCHANGED <<stores, lastId, search>>

\* removeTermFromIndex: await invertedIndexStore.delete(term)
RmDelete(p) ==
  /\ calls[p].pc = "rmDelete"
  /\ invertedIndex' = StoreDelete(invertedIndex, calls[p].item[1].term)
  /\ calls' = [calls EXCEPT ![p] = NextRemove(calls[p])]
  /\ UNCHANGED <<docTerms, documents, docFields, lastId, search>>

\* removeTermFromIndex: await invertedIndexStore.put(item)
RmPut(p) ==
  /\ calls[p].pc = "rmPut"
  /\ invertedIndex' = StorePut(invertedIndex, calls[p].item[1])
  /\ calls' = [calls EXCEPT ![p] = NextRemove(calls[p])]
  /\ UNCHANGED <<docTerms, documents, docFields, lastId, search>>

\* removeDocTerms: await docTermsStore.deleteByDocId(docId)
RemoveDocTerms(p) ==
  /\ calls[p].pc = "removeDocTerms"
  /\ docTerms' = deleteByDocId(docTerms, calls[p].docId[1])
  /\ calls' = [calls EXCEPT ![p].pc = AfterRemove(calls[p].op)]
  /\ UNCHANGED <<invertedIndex, documents, docFields, lastId, search>>

(***************************************************************************)
(* InvertedIndex.findDocumentsByTermsAnd(terms)                            *)
(***************************************************************************)
\* findDocumentsByTerm: the posting set, or an empty set
findDocumentsByTerm(store, term) ==
  LET item == StoreGet(store, term)
  IN IF item # None THEN item[1].docIds ELSE <<>>

\* the intersection loop over docIdSets
RECURSIVE IntersectFrom(_, _, _)
IntersectFrom(result, docIdSets, k) ==
  IF k > Len(docIdSets) THEN result
  ELSE IntersectFrom(SelectSeq(result, LAMBDA id : id \in Range(docIdSets[k])),
                     docIdSets, k + 1)

\* findDocumentsByTermsAnd where only the first term is looked at
AndResultFirst(docIdSets) ==
  IF Len(docIdSets) = 0 THEN <<>> ELSE docIdSets[1]

\* the result of findDocumentsByTermsAnd over the posting sets read
AndResult(docIdSets) ==
  IF Len(docIdSets) = 0 THEN <<>> ELSE IntersectFrom(docIdSets[1], docIdSets, 2)

\* the term lists callers query
TermLists ==
  { <<>>,
    << <<"a">> >>,
    << <<"a">>, <<"b">> >>,
    << <<"b">>, <<"2">> >> }

\* Promise.all(terms.map((term) => this.findDocumentsByTerm(term))): the gets
\* are readonly transactions created in one task, so no readwrite transaction
\* on the store runs between two of them and they read one state of the store
ReadAll(store, terms) ==
  [k \in DOMAIN terms |-> findDocumentsByTerm(store, terms[k])]

findDocumentsByTermsAnd(p, terms) ==
  /\ calls[p].pc = "idle"
  /\ calls' = [calls EXCEPT ![p] =
       IF Len(terms) = 0
       THEN [IdleCall EXCEPT !.op = "findDocumentsByTermsAnd", !.terms = terms,
                             !.result = Some(<<>>), !.pc = "done"]
       ELSE [IdleCall EXCEPT !.op = "findDocumentsByTermsAnd", !.terms = terms,
                             !.pc = "andGet"]]
  /\ UNCHANGED <<stores, lastId, search>>

\* findDocumentsByTermsAnd where each get reads the store at a time of its own
AndGetEach(p) ==
  /\ calls[p].pc = "andGet"
  /\ LET c == calls[p]
         k == Len(c.sets) + 1
         docIdSets == Append(c.sets, findDocumentsByTerm(invertedIndex, c.terms[k]))
     IN calls' = [calls EXCEPT ![p] =
          IF k < Len(c.terms)
          THEN [c EXCEPT !.sets = docIdSets]
          ELSE [c EXCEPT !.sets = docIdSets,
                         !.result = Some(AndResult(docIdSets)), !.pc = "done"]]
  /\ UNCHANGED <<stores, lastId, search>>

\* the gets of Promise.all resolve, then the intersection
AndGet(p) ==
  /\ calls[p].pc = "andGet"
  /\ LET c == calls[p]
         docIdSets == ReadAll(invertedIndex, c.terms)
     IN calls' = [calls EXCEPT ![p] =
          [c EXCEPT !.sets = docIdSets,
                    !.result = Some(AndResult(docIdSets)), !.pc = "done"]]
  /\ UNCHANGED <<stores, lastId, search>>

\* the union loops over docIdSets
RECURSIVE UnionFrom(_, _, _)
UnionFrom(result, docIdSets, k) ==
  IF k > Len(docIdSets) THEN result
  ELSE UnionFrom(NewSet(result \o docIdSets[k]), docIdSets, k + 1)

\* findDocumentsByTermsOr where the sets are intersected
OrResultAsAnd(docIdSets) == AndResult(docIdSets)

\* the result of findDocumentsByTermsOr over the posting sets read
OrResult(docIdSets) == UnionFrom(<<>>, docIdSets, 1)

findDocumentsByTermsOr(p, terms) ==
  /\ calls[p].pc = "idle"
  /\ calls' = [calls EXCEPT ![p] =
       IF Len(terms) = 0
       THEN [IdleCall EXCEPT !.op = "findDocumentsByTermsOr", !.terms = terms,
                             !.result = Some(<<>>), !.pc = "done"]
       ELSE [IdleCall EXCEPT !.op = "findDocumentsByTermsOr", !.terms = terms,
                             !.pc = "orGet"]]
  /\ UNCHANGED <<stores, lastId, search>>

\* the gets of Promise.all resolve, then the union
OrGet(p) ==
  /\ calls[p].pc = "orGet"
  /\ LET c == calls[p]
         docIdSets == ReadAll(invertedIndex, c.terms)
     IN calls' = [calls EXCEPT ![p] =
          [c EXCEPT !.sets = docIdSets,
                    !.result = Some(OrResult(docIdSets)), !.pc = "done"]]
  /\ UNCHANGED <<stores, lastId, search>>

\* the caller takes the call's outcome; the slot is free again
Return(p) ==
  /\ calls[p].pc \in {"done", "failed", "notInitialized"}
  /\ calls' = [calls EXCEPT ![p] = IdleCall]
  /\ UNCHANGED <<stores, lastId, search>>

(***************************************************************************)
(* InvertedIndexDB: addDocument, updateDocument, deleteDocument.  A        *)
(* document has one caller field, title.                                   *)
(***************************************************************************)
\* generateId: a fresh id above all earlier ones
generateId(last) == last + 1

\* DocumentsStore.put and DocFieldsStore.put (keyPath 'docId')
DocPut(store, docId, value) ==
  [d \in DOMAIN store \cup {docId} |-> IF d = docId THEN value ELSE store[d]]

\* DocumentsStore.delete and DocFieldsStore.delete
DocDelete(store, docId) == [d \in DOMAIN store \ {docId} |-> store[d]]

\* extractIndexableFields: the non-empty string fields, system fields left out
extractIndexableFields(doc) == IF doc.title # <<>> THEN <<"title">> ELSE <<>>

\* texts.join(' ') over the indexable fields
combinedText(doc) == IF extractIndexableFields(doc) # <<>> THEN doc.title ELSE <<>>

\* the private indexDocument up to its first request, after the document is saved
EnterPrivateIndexDocument(c) ==
  IF extractIndexableFields(c.doc) # <<>>
  THEN [c EXCEPT !.pc = "saveDocFields"]
  ELSE [c EXCEPT !.pc = "saveTerms"]

addDocument(p, title, createdAt, updatedAt) ==
  /\ calls[p].pc = "idle"
  /\ lastId < MaxRecords
  /\ lastId' = generateId(lastId)
  /\ calls' = [calls EXCEPT ![p] =
       [IdleCall EXCEPT !.op = "addDocument", !.docId = Some(lastId'),
          !.doc = [docId |-> Some(lastId'), createdAt |-> Some(createdAt),
                   updatedAt |-> Some(updatedAt), title |-> title, terms |-> None],
          !.pc = "saveDocument"]]
  /\ UNCHANGED <<stores, search>>

updateDocument(p, docId, title, updatedAt) ==
  /\ calls[p].pc = "idle"
  /\ calls' = [calls EXCEPT ![p] =
       [IdleCall EXCEPT !.op = "updateDocument", !.docId = Some(docId),
          !.doc = [docId |-> Some(docId), createdAt |-> None,
                   updatedAt |-> Some(updatedAt), title |-> title, terms |-> None],
          !.pc = "getDocumentTerms"]]
  /\ UNCHANGED <<stores, lastId, search>>

\* deleteDocument where the record is deleted before the index is removed
deleteDocumentRecordFirst(p, docId) ==
  /\ calls[p].pc = "idle"
  /\ calls' = [calls EXCEPT ![p] =
       [IdleCall EXCEPT !.op = "deleteDocument", !.docId = Some(docId),
                        !.pc = "getDocumentTerms"]]
  /\ documents' = DocDelete(documents, docId)
  /\ UNCHANGED <<invertedIndex, docTerms, docFields, lastId, search>>

deleteDocument(p, docId) ==
  /\ calls[p].pc = "idle"
  /\ calls' = [calls EXCEPT ![p] =
       [IdleCall EXCEPT !.op = "deleteDocument", !.docId = Some(docId),
                        !.pc = "getDocumentTerms"]]
  /\ UNCHANGED <<stores, lastId, search>>

\* saveDocument(docId, doc): await documentsStore.put(doc), then indexDocument starts
SaveDocument(p) ==
  /\ calls[p].pc = "saveDocument"
  /\ documents' = DocPut(documents, calls[p].docId[1], calls[p].doc)
  /\ calls' = [calls EXCEPT ![p] = EnterPrivateIndexDocument(calls[p])]
  /\ UNCHANGED <<invertedIndex, docTerms, docFields, lastId, search>>

\* saveDocFields: await docFieldsStore.put(docId, fieldValues), then
\* invertedIndex.indexDocument(docId, combinedText) starts
SaveDocFields(p) ==
  /\ calls[p].pc = "saveDocFields"
  /\ docFields' = DocPut(docFields, calls[p].docId[1], [title |-> calls[p].doc.title])
  /\ calls' = [calls EXCEPT ![p] =
       EnterIndexDocument(calls[p], combinedText(calls[p].doc))]
  /\ UNCHANGED <<invertedIndex, docTerms, documents, lastId, search>>

\* where a call goes on after the private indexDocument resolved: the callback
\* of rebuildIndex returns to iterateAll
AfterSaveTerms(op) == IF op = "rebuildIndex" THEN "callbackResolved" ELSE "done"

\* doc.terms = terms (or []), then saveDocument(docId, doc) again
SaveTerms(p) ==
  /\ calls[p].pc = "saveTerms"
  /\ LET c == calls[p]
         doc == [c.doc EXCEPT !.terms =
                   IF combinedText(c.doc) # <<>>
                   THEN c.result
                   ELSE Some(<<>>)]
     IN /\ documents' = DocPut(documents, c.docId[1], doc)
        /\ calls' = [calls EXCEPT ![p].doc = doc, ![p].pc = AfterSaveTerms(c.op)]
  /\ UNCHANGED <<invertedIndex, docTerms, docFields, lastId, search>>

\* deleteDocumentFromStore: await documentsStore.delete(docId)
DeleteDocument(p) ==
  /\ calls[p].pc = "deleteDocument"
  /\ documents' = DocDelete(documents, calls[p].docId[1])
  /\ calls' = [calls EXCEPT ![p].pc = "deleteDocFields"]
  /\ UNCHANGED <<invertedIndex, docTerms, docFields, lastId, search>>

\* deleteDocFields: await docFieldsStore.delete(docId)
DeleteDocFields(p) ==
  /\ calls[p].pc = "deleteDocFields"
  /\ docFields' = DocDelete(docFields, calls[p].docId[1])
  /\ calls' = [calls EXCEPT ![p].pc = "done"]
  /\ UNCHANGED <<invertedIndex, docTerms, documents, lastId, search>>

(***************************************************************************)
(* Searcher.searchWithCursor over the documents store.  The options fuzzy  *)
(* and highlight keep their default, false.                                *)
(***************************************************************************)
\* String.prototype.trim
RECURSIVE trim(_)
trim(s) ==
  IF s = <<>> THEN s
  ELSE IF isSpace(s[1]) THEN trim(Tail(s))
  ELSE IF isSpace(s[Len(s)]) THEN trim(SubSeq(s, 1, Len(s) - 1))
  ELSE s

\* String.prototype.includes
includes(s, sub) ==
  \E k \in 0..(Len(s) - Len(sub)) : SubSeq(s, k + 1, k + Len(sub)) = sub

\* a query argument that is not a string (a number, an object, undefined)
NotAString == <<"not a string">>

\* typeof query === 'string'
isString(query) == query # NotAString

\* QueryParser.parse where the exact query is lower-cased but not trimmed
parseUntrimmed(query, exact) ==
  IF query = <<>> \/ ~isString(query) THEN [terms |-> <<>>, isPhrase |-> FALSE]
  ELSE IF exact THEN [terms |-> <<StrLower(query)>>, isPhrase |-> TRUE]
  ELSE [terms |-> [k \in DOMAIN tokenize(query) |-> tokenize(query)[k].term],
        isPhrase |-> FALSE]

\* QueryParser.parse(query, {exact})
parse(query, exact) ==
  IF query = <<>> \/ ~isString(query) THEN [terms |-> <<>>, isPhrase |-> FALSE]
  ELSE IF exact THEN [terms |-> <<StrLower(trim(query))>>, isPhrase |-> TRUE]
  ELSE [terms |-> [k \in DOMAIN tokenize(query) |-> tokenize(query)[k].term],
        isPhrase |-> FALSE]

\* levenshteinDistance where unequal characters are never substituted
RECURSIVE levenshteinDistanceNoSubstitution(_, _)
levenshteinDistanceNoSubstitution(str1, str2) ==
  LET len1 == Len(str1)
      len2 == Len(str2)
      Min(x, y) == IF x <= y THEN x ELSE y
  IN IF len1 = 0 THEN len2
     ELSE IF len2 = 0 THEN len1
     ELSE IF str1[len1] = str2[len2]
     THEN levenshteinDistanceNoSubstitution(SubSeq(str1, 1, len1 - 1),
                                            SubSeq(str2, 1, len2 - 1))
     ELSE Min(levenshteinDistanceNoSubstitution(SubSeq(str1, 1, len1 - 1), str2) + 1,
              levenshteinDistanceNoSubstitution(str1, SubSeq(str2, 1, len2 - 1)) + 1)

\* levenshteinDistance(str1, str2): the value the matrix holds at [len1][len2]
RECURSIVE levenshteinDistance(_, _)
levenshteinDistance(str1, str2) ==
  LET len1 == Len(str1)
      len2 == Len(str2)
      Min(x, y) == IF x <= y THEN x ELSE y
  IN IF len1 = 0 THEN len2
     ELSE IF len2 = 0 THEN len1
     ELSE IF str1[len1] = str2[len2]
     THEN levenshteinDistance(SubSeq(str1, 1, len1 - 1), SubSeq(str2, 1, len2 - 1))
     ELSE Min(Min(levenshteinDistance(SubSeq(str1, 1, len1 - 1), str2) + 1,
                  levenshteinDistance(str1, SubSeq(str2, 1, len2 - 1)) + 1),
              levenshteinDistance(SubSeq(str1, 1, len1 - 1),
                                  SubSeq(str2, 1, len2 - 1)) + 1)

\* similarity where the distance is divided by the first string's length
similarityByFirstLength(str1, str2) ==
  IF Len(str1) = 0 THEN [num |-> 1, den |-> 1]
  ELSE [num |-> Len(str1) - levenshteinDistance(str1, str2), den |-> Len(str1)]

\* similarity(str1, str2) = 1 - distance / maxLen, as the fraction num / den
similarity(str1, str2) ==
  LET maxLen == IF Len(str1) >= Len(str2) THEN Len(str1) ELSE Len(str2)
  IN IF maxLen = 0 THEN [num |-> 1, den |-> 1]
     ELSE [num |-> maxLen - levenshteinDistance(str1, str2), den |-> maxLen]

\* the threshold of findSimilarTerms in searchWithCursor, 0.6, in tenths
SimilarityThreshold == 6

\* similarity(str1, str2) >= tenths / 10, where similarity is 1 - distance / maxLen
similarityAtLeast(str1, str2, tenths) ==
  LET maxLen == IF Len(str1) >= Len(str2) THEN Len(str1) ELSE Len(str2)
  IN IF maxLen = 0 THEN 10 >= tenths
     ELSE 10 * (maxLen - levenshteinDistance(str1, str2)) >= tenths * maxLen

\* findSimilarTerms where only candidates of the target's length are compared
findSimilarTermsSameLength(targetTerm, candidateTerms, threshold) ==
  SelectSeq(candidateTerms, LAMBDA term :
    Len(term) = Len(targetTerm) /\ similarityAtLeast(targetTerm, term, threshold))

\* findSimilarTerms: the candidates at or above the threshold (their order by
\* similarity is lost when the caller puts them in a Set)
findSimilarTerms(targetTerm, candidateTerms, threshold) ==
  SelectSeq(candidateTerms, LAMBDA term : similarityAtLeast(targetTerm, term, threshold))

\* the similar-term sets of searchWithCursor where the query term is not added
similarTermSetsOfBare(terms, allTerms) ==
  [k \in DOMAIN terms |->
     NewSet(findSimilarTerms(terms[k], allTerms, SimilarityThreshold))]

\* the similar-term sets of searchWithCursor: per query term, the similar terms
\* of the vocabulary and the term itself
similarTermSetsOf(terms, allTerms) ==
  [k \in DOMAIN terms |->
     SetAdd(NewSet(findSimilarTerms(terms[k], allTerms, SimilarityThreshold)), terms[k])]

\* checkDocumentMatch where the full-word filter is left out
checkDocumentMatchAllTerms(doc, terms, isPhrase, phraseLower, fuzzy, similarTermSets, operator) ==
  IF isPhrase /\ phraseLower # None /\ phraseLower[1] # <<>>
  THEN doc.title # <<>> /\ includes(StrLower(doc.title), phraseLower[1])
  ELSE IF doc.terms # None
  THEN IF operator = "AND"
       THEN \A k \in DOMAIN terms : terms[k] \in Range(doc.terms[1])
       ELSE \E k \in DOMAIN terms : terms[k] \in Range(doc.terms[1])
  ELSE FALSE

\* checkDocumentMatch; a document's string field is its title, and its terms
\* field is an array only when it holds one
checkDocumentMatch(doc, terms, isPhrase, phraseLower, fuzzy, similarTermSets, operator) ==
  IF isPhrase /\ phraseLower # None /\ phraseLower[1] # <<>>
  THEN doc.title # <<>> /\ includes(StrLower(doc.title), phraseLower[1])
  ELSE IF fuzzy /\ similarTermSets # None
  THEN IF doc.terms = None THEN FALSE
       ELSE IF operator = "AND"
       THEN \A k \in DOMAIN similarTermSets[1] :
              \E j \in DOMAIN similarTermSets[1][k] :
                similarTermSets[1][k][j] \in Range(doc.terms[1])
       ELSE \E k \in DOMAIN similarTermSets[1] :
              \E j \in DOMAIN similarTermSets[1][k] :
                similarTermSets[1][k][j] \in Range(doc.terms[1])
  ELSE IF doc.terms # None
  THEN LET fullWords == SelectSeq(terms, LAMBDA t : Len(t) >= 2)
           termsToCheck == IF Len(fullWords) > 0 THEN fullWords ELSE terms
       IN IF operator = "AND"
          THEN \A k \in DOMAIN termsToCheck : termsToCheck[k] \in Range(doc.terms[1])
          ELSE \E k \in DOMAIN termsToCheck : termsToCheck[k] \in Range(doc.terms[1])
  ELSE FALSE

\* the key of a record in the index chosen by sortBy (the store itself for docId)
SortKey(doc, sortBy) ==
  CASE sortBy = "createdAt" -> doc.createdAt
    [] sortBy = "updatedAt" -> doc.updatedAt
    [] OTHER -> doc.docId

\* the records of an index in its order: by key, then by primary key; a record
\* without the key is not in the index
RECURSIVE Ascending(_, _, _)
Ascending(docs, sortBy, S) ==
  IF S = {} THEN <<>>
  ELSE LET m == CHOOSE d \in S : \A e \in S \ {d} :
                  \/ SortKey(docs[d], sortBy)[1] < SortKey(docs[e], sortBy)[1]
                  \/ /\ SortKey(docs[d], sortBy)[1] = SortKey(docs[e], sortBy)[1]
                     /\ d < e
       IN <<m>> \o Ascending(docs, sortBy, S \ {m})

Reverse(s) == [k \in DOMAIN s |-> s[Len(s) + 1 - k]]

\* a key range that includes lastKey: lowerBound(lastKey) / upperBound(lastKey)
KeyInRangeInclusive(key, order, lastKey) ==
  \/ lastKey = None
  \/ IF order = "asc" THEN key >= lastKey[1] ELSE key <= lastKey[1]

\* IDBKeyRange.lowerBound(lastKey, true) / upperBound(lastKey, true), or no range
KeyInRange(key, order, lastKey) ==
  \/ lastKey = None
  \/ IF order = "asc" THEN key > lastKey[1] ELSE key < lastKey[1]

\* index.openCursor(keyRange, direction): the records the cursor will visit
openCursor(docs, sortBy, order, lastKey) ==
  LET indexed == {d \in DOMAIN docs : SortKey(docs[d], sortBy) # None}
      ascending == Ascending(docs, sortBy, indexed)
      directed == IF order = "desc" THEN Reverse(ascending) ELSE ascending
  IN SelectSeq(directed,
               LAMBDA d : KeyInRange(SortKey(docs[d], sortBy)[1], order, lastKey))

\* searchWithCursor where the query and its terms are not looked at before the
\* cursor is opened
StartSearchUnguarded(query, options, lastKey, pages) ==
  LET parsed == parse(query, options.exact)
  IN [pc |-> "cursor", query |-> query, exact |-> options.exact,
      sortBy |-> options.sortBy, order |-> options.order,
      limit |-> options.limit, operator |-> options.operator,
      fuzzy |-> FALSE, similarTermSets |-> None, lastKey |-> lastKey,
      terms |-> parsed.terms, isPhrase |-> parsed.isPhrase,
      phraseLower |-> IF parsed.isPhrase THEN Some(trim(StrLower(query))) ELSE None,
      cursor |-> openCursor(documents, options.sortBy, options.order, lastKey),
      opened |-> TRUE, items |-> <<>>, lastMatchedKey |-> None,
      nextKey |-> None, pages |-> pages]

\* searchWithCursor up to its first request; pages holds what the caller got
\* before.  With fuzzy the first request is getAllTerms, else openCursor
StartSearch(query, options, lastKey, pages) ==
  LET parsed == parse(query, options.exact)
      s == [pc |-> "resolved", query |-> query, exact |-> options.exact,
            sortBy |-> options.sortBy, order |-> options.order,
            limit |-> options.limit, operator |-> options.operator,
            fuzzy |-> options.fuzzy, similarTermSets |-> None, lastKey |-> lastKey,
            terms |-> parsed.terms, isPhrase |-> parsed.isPhrase,
            phraseLower |-> IF parsed.isPhrase THEN Some(trim(StrLower(query))) ELSE None,
            cursor |-> <<>>, opened |-> FALSE, items |-> <<>>, lastMatchedKey |-> None,
            nextKey |-> None, pages |-> pages]
  IN IF query = <<>> \/ ~isString(query) \/ parsed.terms = <<>> THEN s
     ELSE IF options.fuzzy THEN [s EXCEPT !.pc = "getAllTerms"]
     ELSE [s EXCEPT !.pc = "cursor", !.opened = TRUE,
                    !.cursor = openCursor(documents, options.sortBy, options.order,
                                          lastKey)]

\* the options of a search as the search keeps them
OptionsOf(s) ==
  [exact |-> s.exact, sortBy |-> s.sortBy, order |-> s.order, limit |-> s.limit,
   fuzzy |-> s.fuzzy, operator |-> s.operator]

\* request.onsuccess where the limit is tested before the record is looked at
onsuccessLimitFirst(s, docs) ==
  IF s.cursor = <<>>
  THEN [s EXCEPT !.pc = "resolved", !.nextKey = None]
  ELSE LET doc == docs[Head(s.cursor)]
           currentKey == SortKey(doc, s.sortBy)
           matches == checkDocumentMatch(doc, s.terms, s.isPhrase, s.phraseLower,
                                         s.fuzzy, s.similarTermSets, s.operator)
       IN IF Len(s.items) >= s.limit /\ s.limit > 0
          THEN [s EXCEPT !.pc = "resolved", !.nextKey = currentKey]
          ELSE [s EXCEPT !.items = IF matches THEN Append(@, Head(s.cursor)) ELSE @,
                         !.lastMatchedKey = IF matches THEN currentKey ELSE @,
                         !.cursor = Tail(@)]

\* request.onsuccess: one cursor event
onsuccess(s, docs) ==
  IF s.cursor = <<>>
  THEN [s EXCEPT !.pc = "resolved", !.nextKey = None]
  ELSE LET doc == docs[Head(s.cursor)]
           currentKey == SortKey(doc, s.sortBy)
           matches == checkDocumentMatch(doc, s.terms, s.isPhrase, s.phraseLower,
                                         s.fuzzy, s.similarTermSets, s.operator)
           t == IF matches
                THEN [s EXCEPT !.items = Append(@, Head(s.cursor)),
                               !.lastMatchedKey = currentKey]
                ELSE s
       IN IF Len(t.items) >= t.limit
          THEN [t EXCEPT !.pc = "resolved", !.nextKey = t.lastMatchedKey]
          ELSE [t EXCEPT !.cursor = Tail(@)]

\* a first call of searchWithCursor, without lastKey
searchWithCursor(query, options) ==
  /\ search.pc = "none"
  /\ search' = StartSearch(query, options, None, <<>>)
  /\ UNCHANGED <<stores, calls, lastId, made, applied, instance, iteration>>

\* fuzzy: await invertedIndex.getAllTerms(), the similar-term sets, then openCursor
GetAllTerms ==
  /\ search.pc = "getAllTerms"
  /\ search' = [search EXCEPT
       !.similarTermSets = Some(similarTermSetsOf(search.terms, getAllTerms(invertedIndex))),
       !.pc = "cursor", !.opened = TRUE,
       !.cursor = openCursor(documents, search.sortBy, search.order, search.lastKey)]
  /\ UNCHANGED <<stores, calls, lastId, made, applied, instance, iteration>>

CursorSuccess ==
  /\ search.pc = "cursor"
  /\ search' = onsuccess(search, documents)
  /\ UNCHANGED <<stores, calls, lastId, made, applied, instance, iteration>>

\* the caller asks for the next page: lastKey is the previous page's nextKey
NextPage ==
  /\ search.pc = "resolved"
  /\ search.nextKey # None
  /\ search' = StartSearch(search.query, OptionsOf(search), search.nextKey,
                           search.pages \o search.items)
  /\ UNCHANGED <<stores, calls, lastId, made, applied, instance, iteration>>

\* the queries of the model
Queries == { <<>>, <<" ", "A", ".", "b">> }

SortBys == {"docId", "createdAt", "updatedAt"}

Orders == {"asc", "desc"}

\* a document as addDocument (both timestamps) or updateDocument (updatedAt
\* only) leaves it in the store
StoredDocs(d) ==
  { [docId |-> Some(d), createdAt |-> createdAt, updatedAt |-> Some(t),
     title |-> title, terms |-> indexDocumentReturn(TermSet(title))] :
      <<createdAt, t, title>> \in
        {x \in (({None} \cup {Some(u) : u \in Times}) \X Times \X Texts) :
           x[1] \in {None, Some(x[2])}} }

\* the static data sets: documents 1..n
DataSets ==
  UNION { {f \in [1..n -> UNION {StoredDocs(d) : d \in RecordIds}] :
             \A d \in 1..n : f[d].docId = Some(d)} : n \in 0..MaxRecords }

(***************************************************************************)
(* Specifications.                                                         *)
(***************************************************************************)
\* no pure function applied yet
NoApplication == [fn |-> "none"]

\* no iterateAll call made yet
NoIteration == [pc |-> "none"]

\* the instance the constructor leaves: not initialized, no database connection;
\* lastCall is the one of init() and close() that was called last
NewInstance == [initialized |-> FALSE, db |-> FALSE, opening |-> 0, lastCall |-> "none"]

\* the instance after an awaited init()
OpenInstance == [initialized |-> TRUE, db |-> TRUE, opening |-> 0, lastCall |-> "init"]

EmptyStore == [t \in {} |-> 0]

NoSearch == [pc |-> "none"]

Init ==
  /\ invertedIndex = EmptyStore
  /\ docTerms = {}
  /\ documents = EmptyStore
  /\ docFields = EmptyStore
  /\ calls = [p \in Procs |-> IdleCall]
  /\ lastId = 0
  /\ search = NoSearch
  /\ made = 0
  /\ applied = NoApplication
  /\ instance = OpenInstance
  /\ iteration = NoIteration

\* a request of a call of InvertedIndex
IndexStep(p) ==
  \/ AddGet(p)
  \/ AddPut(p)
  \/ AddAdd(p)
  \/ SaveDocTerm(p)
  \/ GetDocumentTerms(p)
  \/ RmGet(p)
  \/ RmDelete(p)
  \/ RmPut(p)
  \/ RemoveDocTerms(p)
  \/ AndGet(p)
  \/ OrGet(p)
  \/ Return(p)

\* calls take the lowest free slot
FreeSlot(p) == calls[p].pc = "idle" /\ \A q \in Procs : q < p => calls[q].pc # "idle"

\* the document ids the index stores and the calls in progress mention
UsedDocIds ==
  UNION {Range(invertedIndex[t].docIds) : t \in DOMAIN invertedIndex}
    \cup {r.docId : r \in docTerms}
    \cup UNION {Range(calls[p].docId) : p \in Procs}

\* callers of InvertedIndex take document ids in order of first use: the ids
\* are interchangeable, the code compares them for equality only
NextDocId(d) == d = 1 \/ \E e \in UsedDocIds : d <= e + 1

\* the caller, holding the outcome of an indexDocument call, calls indexDocument
\* again with the same document and text
IndexAgain ==
  /\ calls[1].op = "indexDocument" /\ calls[1].pc = "done"
  /\ indexDocument(2, calls[1].docId[1], calls[1].doc.title)

\* the InvertedIndex API, each call awaited before the next is made
NextSeq ==
  \/ IndexAgain /\ UNCHANGED <<made, applied, instance, iteration>>
  \/ \E p \in Procs, d \in DocIds, text \in Texts :
       NoCallActive /\ FreeSlot(p) /\ NextDocId(d)
         /\ indexDocument(p, d, text) /\ UNCHANGED <<made, applied, instance, iteration>>
  \/ \E p \in Procs, d \in DocIds :
       NoCallActive /\ FreeSlot(p) /\ NextDocId(d)
         /\ removeDocumentIndex(p, d) /\ UNCHANGED <<made, applied, instance, iteration>>
  \/ \E p \in Procs, terms \in TermLists :
       NoCallActive /\ FreeSlot(p) /\ findDocumentsByTermsAnd(p, terms)
         /\ UNCHANGED <<made, applied, instance, iteration>>
  \/ \E p \in Procs, terms \in TermLists :
       NoCallActive /\ FreeSlot(p) /\ findDocumentsByTermsOr(p, terms)
         /\ UNCHANGED <<made, applied, instance, iteration>>
  \/ \E p \in Procs : IndexStep(p) /\ UNCHANGED <<made, applied, instance, iteration>>

SpecSeq == Init /\ [][NextSeq]_vars

\* the InvertedIndex API, calls made while others are in progress
NextConc ==
  \/ \E p \in Procs, d \in DocIds, text \in Texts :
       made < MaxCalls /\ made' = made + 1 /\ UNCHANGED <<applied, instance, iteration>>
         /\ FreeSlot(p) /\ NextDocId(d)
         /\ indexDocument(p, d, text)
  \/ \E p \in Procs, d \in DocIds :
       made < MaxCalls /\ made' = made + 1 /\ UNCHANGED <<applied, instance, iteration>>
         /\ FreeSlot(p) /\ NextDocId(d)
         /\ removeDocumentIndex(p, d)
  \/ \E p \in Procs, terms \in TermLists :
       made < MaxCalls /\ made' = made + 1 /\ UNCHANGED <<applied, instance, iteration>>
         /\ FreeSlot(p)
         /\ findDocumentsByTermsAnd(p, terms)
  \/ \E p \in Procs, terms \in TermLists :
       made < MaxCalls /\ made' = made + 1 /\ UNCHANGED <<applied, instance, iteration>>
         /\ FreeSlot(p)
         /\ findDocumentsByTermsOr(p, terms)
  \/ \E p \in Procs : IndexStep(p) /\ UNCHANGED <<made, applied, instance, iteration>>

SpecConc == Init /\ [][NextConc]_vars

\* a request of a call of InvertedIndexDB
DBStep(p) ==
  \/ SaveDocument(p)
  \/ SaveDocFields(p)
  \/ SaveTerms(p)
  \/ DeleteDocument(p)
  \/ DeleteDocFields(p)
  \/ AddGet(p)
  \/ AddPut(p)
  \/ AddAdd(p)
  \/ SaveDocTerm(p)
  \/ GetDocumentTerms(p)
  \/ RmGet(p)
  \/ RmDelete(p)
  \/ RmPut(p)
  \/ RemoveDocTerms(p)
  \/ Return(p)

\* the InvertedIndexDB API, each call awaited before the next is made;
\* Date.now() gives both timestamps of a new document
NextDB ==
  \/ \E p \in Procs, title \in Titles, now \in ClockReadings :
       NoCallActive /\ FreeSlot(p) /\ addDocument(p, title, now, now)
         /\ UNCHANGED <<made, applied, instance, iteration>>
  \/ \E p \in Procs, d \in RecordIds, title \in Titles, now \in ClockReadings :
       NoCallActive /\ FreeSlot(p) /\ updateDocument(p, d, title, now)
         /\ UNCHANGED <<made, applied, instance, iteration>>
  \/ \E p \in Procs, d \in RecordIds :
       NoCallActive /\ FreeSlot(p) /\ deleteDocument(p, d) /\ UNCHANGED <<made, applied, instance, iteration>>
  \/ \E p \in Procs : DBStep(p) /\ UNCHANGED <<made, applied, instance, iteration>>

SpecDB == Init /\ [][NextDB]_vars

\* a static data set and a chain of searchWithCursor calls over it
InitCursor ==
  /\ invertedIndex = EmptyStore
  /\ docTerms = {}
  /\ documents \in DataSets
  /\ docFields = EmptyStore
  /\ calls = [p \in Procs |-> IdleCall]
  /\ lastId = Cardinality(DOMAIN documents)
  /\ search = NoSearch
  /\ made = 0
  /\ applied = NoApplication
  /\ instance = OpenInstance
  /\ iteration = NoIteration

NextCursor ==
  \/ \E query \in Queries, exact \in BOOLEAN, sortBy \in SortBys, order \in Orders,
        limit \in 0..MaxLimit :
       searchWithCursor(query, [exact |-> exact, sortBy |-> sortBy, order |-> order,
                                limit |-> limit, fuzzy |-> FALSE, operator |-> "AND"])
  \/ CursorSuccess
  \/ NextPage

SpecCursor == InitCursor /\ [][NextCursor]_vars

\* the cursor events of a call are delivered, and the caller goes on asking for
\* the next page as long as a page carries a nextKey
SpecCursorFair ==
  SpecCursor /\ WF_vars(CursorSuccess) /\ WF_vars(NextPage)

\* the queries put to one document: terms with and without a full word, a term
\* with similar terms, a phrase, a query of white space, a query without terms,
\* the empty string and a value that is not a string
MatchQueries ==
  { <<"a", " ", "a", "b">>,
    <<"a", " ", "b">>,
    <<"a", "a", "b">>,
    <<"a", "a", "b", " ", "b">>,
    <<" ", "A", ".", "b">>,
    <<" ">>,
    <<".">>,
    <<>>,
    NotAString }

\* the terms fields of the one document: no array, or an array of terms
MatchTerms ==
  { None, Some(<<>>), Some(<< <<"a">> >>), Some(<< <<"a", "b">> >>),
    Some(<< <<"a">>, <<"b">> >>), Some(<< <<"a">>, <<"a", "b">> >>),
    Some(<< <<"a", "b", "b">> >>), Some(<< <<"a", "a", "b">> >>) }

\* the vocabularies getAllTerms reads
Vocabularies ==
  { {}, { <<"a", "b">>, <<"b">> }, { <<"a", "b">>, <<"a", "b", "b">>, <<"b">> } }

\* one document with any terms field, a vocabulary, and a search over them
InitMatch ==
  /\ \E V \in Vocabularies :
       invertedIndex = [t \in V |-> InvertedIndexItem(t, <<1>>, 1)]
  /\ docTerms = {}
  /\ \E title \in Titles, terms \in MatchTerms :
       documents = [d \in {1} |->
         [docId |-> Some(1), createdAt |-> Some(1), updatedAt |-> Some(1),
          title |-> title, terms |-> terms]]
  /\ docFields = EmptyStore
  /\ calls = [p \in Procs |-> IdleCall]
  /\ lastId = 1
  /\ search = NoSearch
  /\ made = 0
  /\ applied = NoApplication
  /\ instance = OpenInstance
  /\ iteration = NoIteration

NextMatch ==
  \/ \E query \in MatchQueries, exact \in BOOLEAN, fuzzy \in BOOLEAN,
        operator \in {"AND", "OR"} :
       searchWithCursor(query, [exact |-> exact, sortBy |-> "docId", order |-> "asc",
                                limit |-> 1, fuzzy |-> fuzzy, operator |-> operator])
  \/ GetAllTerms
  \/ CursorSuccess

SpecMatch == InitMatch /\ [][NextMatch]_vars

(***************************************************************************)
(* The life of an InvertedIndexDB instance: init(), close(), and calls of  *)
(* addDocument, updateDocument and deleteDocument between them.            *)
(***************************************************************************)
\* init(): returns at once if initialized, else awaits db.open()
init ==
  /\ instance.opening < MaxCalls
  /\ instance' = [instance EXCEPT !.lastCall = "init",
                     !.opening = IF instance.initialized THEN @ ELSE @ + 1]
  /\ UNCHANGED <<stores, calls, lastId, search, made, applied, iteration>>

\* db.open() resolved: request.onsuccess keeps the connection, and init() goes
\* on to create the stores and set initialized
InitOpened ==
  /\ instance.opening > 0
  /\ instance' = [instance EXCEPT !.opening = @ - 1, !.db = TRUE, !.initialized = TRUE]
  /\ UNCHANGED <<stores, calls, lastId, search, made, applied, iteration>>

\* close(): db.close() drops the connection, then initialized = false
close ==
  /\ instance' = [instance EXCEPT !.lastCall = "close", !.db = FALSE,
                                   !.initialized = FALSE]
  /\ UNCHANGED <<stores, calls, lastId, search, made, applied, iteration>>

\* ensureInitialized() of a public operation
ensureInitialized == instance.initialized

\* a public operation called while not initialized: ensureInitialized throws,
\* the call is rejected before any request
NotInitialized(p, op) ==
  /\ calls[p].pc = "idle"
  /\ ~ensureInitialized
  /\ calls' = [calls EXCEPT ![p] = [IdleCall EXCEPT !.op = op, !.pc = "notInitialized"]]
  /\ UNCHANGED <<stores, lastId, search>>

InitLife ==
  /\ invertedIndex = EmptyStore
  /\ docTerms = {}
  /\ documents = EmptyStore
  /\ docFields = EmptyStore
  /\ calls = [p \in Procs |-> IdleCall]
  /\ lastId = 0
  /\ search = NoSearch
  /\ made = 0
  /\ applied = NoApplication
  /\ instance = NewInstance
  /\ iteration = NoIteration

\* init() and close() are called between the operations, each operation is
\* awaited before the next call
NextLife ==
  \/ NoCallActive /\ init
  \/ InitOpened
  \/ NoCallActive /\ close
  \/ \E p \in Procs, op \in {"addDocument", "updateDocument", "deleteDocument"} :
       NoCallActive /\ FreeSlot(p) /\ NotInitialized(p, op)
         /\ UNCHANGED <<made, applied, instance, iteration>>
  \/ \E p \in Procs :
       NoCallActive /\ FreeSlot(p) /\ ensureInitialized
         /\ addDocument(p, <<"a">>, 1, 1) /\ UNCHANGED <<made, applied, instance, iteration>>
  \/ \E p \in Procs, d \in RecordIds :
       NoCallActive /\ FreeSlot(p) /\ ensureInitialized
         /\ updateDocument(p, d, <<"a">>, 1) /\ UNCHANGED <<made, applied, instance, iteration>>
  \/ \E p \in Procs, d \in RecordIds :
       NoCallActive /\ FreeSlot(p) /\ ensureInitialized
         /\ deleteDocument(p, d) /\ UNCHANGED <<made, applied, instance, iteration>>
  \/ \E p \in Procs : DBStep(p) /\ UNCHANGED <<made, applied, instance, iteration>>

SpecLife == InitLife /\ [][NextLife]_vars

(***************************************************************************)
(* The pure functions, applied to the strings of a bounded length.         *)
(***************************************************************************)
\* the strings over chars of length at most n
Strings(chars, n) == UNION {[1..k -> chars] : k \in 0..n}

\* the characters of the texts tokenized: CJK characters, a letter, a space
TokenizerChars == {"zh1", "zh2", "a", " "}

\* tokenizer.tokenize(text)
Tokenize(text) ==
  /\ applied = NoApplication
  /\ applied' = [fn |-> "tokenize", text |-> text, value |-> tokenize(text)]
  /\ UNCHANGED <<stores, calls, lastId, search, made, instance, iteration>>

\* the characters of the strings compared
TermChars == {"a", "b"}

\* levenshteinDistance(str1, str2)
LevenshteinDistance(str1, str2) ==
  /\ applied = NoApplication
  /\ applied' = [fn |-> "levenshteinDistance", str1 |-> str1, str2 |-> str2,
                 value |-> levenshteinDistance(str1, str2)]
  /\ UNCHANGED <<stores, calls, lastId, search, made, instance, iteration>>

\* similarity(str1, str2)
Similarity(str1, str2) ==
  /\ applied = NoApplication
  /\ applied' = [fn |-> "similarity", str1 |-> str1, str2 |-> str2,
                 value |-> similarity(str1, str2)]
  /\ UNCHANGED <<stores, calls, lastId, search, made, instance, iteration>>

\* generateNGramsCombined(text): the 2-grams, then the 3-grams
generateNGramsCombined(text) == generateNGrams(text, 2) \o generateNGrams(text, 3)

\* the default of the parameter minMatches of findCandidatesByNGram
DefaultMinMatches == 2

\* findCandidatesByNGram(targetTerm, termNGramMap, minMatches): the members of
\* the returned Set; candidateCounts holds a term once a gram of the target has it
findCandidatesByNGram(targetTerm, termNGramMap, minMatches) ==
  LET targetGrams == generateNGramsCombined(targetTerm)
      candidateCounts(term) ==
        Cardinality({k \in DOMAIN targetGrams :
                       /\ targetGrams[k] \in DOMAIN termNGramMap
                       /\ term \in termNGramMap[targetGrams[k]]})
      min == IF minMatches = None THEN DefaultMinMatches ELSE minMatches[1]
  IN {term \in UNION {termNGramMap[g] : g \in DOMAIN termNGramMap} :
        candidateCounts(term) >= 1 /\ candidateCounts(term) >= min}

\* the maps from grams to the terms that have them
NGramMaps ==
  LET grams == { <<"a", "b">>, <<"b", "b">> }
      terms == { <<"a", "b">>, <<"a", "b", "b">> }
  IN UNION {[G -> SUBSET terms \ {{}}] : G \in SUBSET grams}

FindCandidatesByNGram(targetTerm, termNGramMap, minMatches) ==
  /\ applied = NoApplication
  /\ applied' = [fn |-> "findCandidatesByNGram", targetTerm |-> targetTerm,
                 termNGramMap |-> termNGramMap, minMatches |-> minMatches,
                 value |-> findCandidatesByNGram(targetTerm, termNGramMap, minMatches)]
  /\ UNCHANGED <<stores, calls, lastId, search, made, instance, iteration>>

\* Sorter.compareValues(a, b) for numbers and null
compareValues(a, b) ==
  IF a = None /\ b = None THEN 0
  ELSE IF a = None THEN 1
  ELSE IF b = None THEN -1
  ELSE a[1] - b[1]

\* the comparator of Sorter.sort for one sort field; values gives
\* getFieldValue of each document
SortCompare(a, b, values, order) ==
  IF order = "asc" THEN compareValues(values[a], values[b])
  ELSE -compareValues(values[a], values[b])

\* Array.prototype.sort is stable: docIds[k] goes behind what does not
\* compare greater
RECURSIVE SortFrom(_, _, _, _, _)
SortFrom(sorted, docIds, k, values, order) ==
  IF k > Len(docIds) THEN sorted
  ELSE LET greater == {i \in DOMAIN sorted :
                         SortCompare(sorted[i], docIds[k], values, order) > 0}
           pos == IF greater = {} THEN Len(sorted) + 1
                  ELSE CHOOSE i \in greater : \A j \in greater : i <= j
       IN SortFrom(SubSeq(sorted, 1, pos - 1) \o <<docIds[k]>>
                     \o SubSeq(sorted, pos, Len(sorted)),
                   docIds, k + 1, values, order)

\* Sorter.sort(docIds, {field, order})
sort(docIds, values, order) ==
  IF docIds = <<>> THEN docIds ELSE SortFrom(<<>>, docIds, 1, values, order)

Sort(docIds, values, order) ==
  /\ applied = NoApplication
  /\ applied' = [fn |-> "sort", docIds |-> docIds, values |-> values, order |-> order,
                 value |-> sort(docIds, values, order)]
  /\ UNCHANGED <<stores, calls, lastId, search, made, instance, iteration>>

NextPure ==
  \/ \E text \in Strings(TokenizerChars, MaxLen) : Tokenize(text)
  \/ \E str1, str2 \in Strings(TermChars, MaxLen) : LevenshteinDistance(str1, str2)
  \/ \E str1, str2 \in Strings(TermChars, MaxLen) : Similarity(str1, str2)
  \/ \E targetTerm \in Strings(TermChars, MaxLen), termNGramMap \in NGramMaps,
        minMatches \in {None, Some(1), Some(2), Some(3)} :
       FindCandidatesByNGram(targetTerm, termNGramMap, minMatches)
  \/ \E n \in 0..MaxDocs, order \in Orders :
       \E values \in [1..n -> {None, Some(1), Some(2)}] :
         Sort([k \in 1..n |-> k], values, order)

SpecPure == Init /\ [][NextPure]_vars

(***************************************************************************)
(* Properties of the inverted index.                                       *)
(***************************************************************************)
\* the posting set of a term as the store holds it
PostingSet(t) ==
  IF t \in DOMAIN invertedIndex THEN Range(invertedIndex[t].docIds) ELSE {}

\* the terms the texts and the queries of the model can produce
AllTerms ==
  UNION {Range(TermSet(text)) : text \in Texts} \cup UNION {Range(l) : l \in TermLists}

IndexCallActive(p) ==
  calls[p].op = "indexDocument" /\ calls[p].pc \notin {"idle", "done", "failed"}

\* C3 (state part): when indexDocument(docId, text) has completed, docId is in
\* the posting set of every term of text
C3_Completed ==
  \A p \in Procs :
    calls[p].op = "indexDocument" /\ calls[p].pc = "done" =>
      \A t \in Range(TermSet(calls[p].doc.title)) : calls[p].docId[1] \in PostingSet(t)

\* C3 (step part): a step of indexDocument(docId, text) leaves the entries of the
\* terms not in text unchanged, keeps the members of every entry, adds nobody
\* but docId, and creates an entry as {term, {docId}, 1}
C3_Step ==
  \A p \in Procs :
    IndexCallActive(p) =>
      \A t \in AllTerms \cup DOMAIN invertedIndex \cup DOMAIN invertedIndex' :
        /\ t \notin Range(TermSet(calls[p].doc.title)) =>
             /\ (t \in DOMAIN invertedIndex) = (t \in DOMAIN invertedIndex')
             /\ t \in DOMAIN invertedIndex => invertedIndex'[t] = invertedIndex[t]
        /\ t \in DOMAIN invertedIndex =>
             /\ t \in DOMAIN invertedIndex'
             /\ Range(invertedIndex[t].docIds) \subseteq Range(invertedIndex'[t].docIds)
             /\ Range(invertedIndex'[t].docIds) \subseteq
                  Range(invertedIndex[t].docIds) \cup {calls[p].docId[1]}
        /\ t \notin DOMAIN invertedIndex /\ t \in DOMAIN invertedIndex' =>
             invertedIndex'[t] = InvertedIndexItem(t, <<calls[p].docId[1]>>, 1)

\* C3: indexDocument upserts docId into the posting set of every term of text
\* and leaves every other entry and every other member alone
C3_IndexDocumentUpsert == []C3_Completed /\ [][C3_Step]_vars

\* C3 witness: a completed indexDocument that created one entry and extended another
C3_Witness ==
  \E p \in Procs :
    /\ calls[p].op = "indexDocument" /\ calls[p].pc = "done"
    /\ \E t, u \in Range(calls[p].terms) :
         /\ invertedIndex[t].docIds = <<calls[p].docId[1]>>
         /\ Len(invertedIndex[u].docIds) >= 2
         /\ invertedIndex[u].docIds[Len(invertedIndex[u].docIds)] = calls[p].docId[1]

\* C4: once removeDocumentIndex(d) has completed, no posting entry contains d,
\* whatever other documents are indexed
C4_RemovedEverywhere ==
  \A p \in Procs :
    calls[p].op = "removeDocumentIndex" /\ calls[p].pc = "done" =>
      \A t \in DOMAIN invertedIndex : calls[p].docId[1] \notin Range(invertedIndex[t].docIds)

\* C4 witness: a completed removal of a document that was indexed under two
\* terms, while another document is still indexed
C4_Witness ==
  \E p \in Procs :
    /\ calls[p].op = "removeDocumentIndex" /\ calls[p].pc = "done"
    /\ Len(calls[p].terms) = 2
    /\ \E t \in Range(calls[p].terms) : PostingSet(t) # {}

\* C5: the store never holds an entry whose document set is empty
C5_NoEmptyEntry ==
  \A t \in DOMAIN invertedIndex : invertedIndex[t].docIds # <<>>

\* C5 witness: a removal took the last document of a term and the entry is gone
C5_Witness ==
  \E p \in Procs :
    /\ calls[p].op = "removeDocumentIndex" /\ calls[p].pc = "done"
    /\ \E t \in Range(calls[p].terms) : t \notin DOMAIN invertedIndex

\* C6: every posting entry's count is the number of its document ids
C6_CountIsSize ==
  \A t \in DOMAIN invertedIndex :
    /\ invertedIndex[t].count = Cardinality(Range(invertedIndex[t].docIds))
    /\ invertedIndex[t].count = Len(invertedIndex[t].docIds)

\* C6 witness: an entry that grew to three documents and, after a completed
\* removal, holds two
C6_Witness ==
  \E p \in Procs :
    /\ calls[p].op = "removeDocumentIndex" /\ calls[p].pc = "done"
    /\ \E t \in Range(calls[p].terms) :
         t \in DOMAIN invertedIndex /\ invertedIndex[t].count = 2

\* C10: findDocumentsByTermsAnd(terms) returns the intersection of the posting
\* sets of its terms, and the empty set for no terms
C10_AndIsIntersection ==
  \A p \in Procs :
    calls[p].op = "findDocumentsByTermsAnd" /\ calls[p].pc = "done" =>
      /\ calls[p].result # None
      /\ Range(calls[p].result[1]) =
           IF calls[p].terms = <<>> THEN {}
           ELSE {d \in DocIds : \A k \in DOMAIN calls[p].terms :
                   d \in PostingSet(calls[p].terms[k])}

\* C10 witness: a two-term query whose result is not empty and is smaller than
\* the first term's posting set
C10_Witness ==
  \E p \in Procs :
    /\ calls[p].op = "findDocumentsByTermsAnd" /\ calls[p].pc = "done"
    /\ Len(calls[p].terms) = 2
    /\ calls[p].result[1] # <<>>
    /\ Range(calls[p].result[1]) # PostingSet(calls[p].terms[1])

\* C9: the write of addTermToIndex stores the set the call read plus its own
\* document, whatever the store holds by then, so a write made in between is lost
C9_WriteOverwrites ==
  [][\A p \in Procs :
       calls[p].pc = "addPut" /\ calls'[p].pc # "addPut" =>
         invertedIndex'[calls[p].item[1].term].docIds = calls[p].item[1].docIds]_vars

\* C9 witness: two completed indexDocument calls of different documents share a
\* term whose posting set lacks one of the two documents
C9_Witness ==
  \E p, q \in Procs :
    /\ p # q
    /\ calls[p].op = "indexDocument" /\ calls[p].pc = "done"
    /\ calls[q].op = "indexDocument" /\ calls[q].pc = "done"
    /\ calls[p].docId # calls[q].docId
    /\ \E t \in Range(calls[p].terms) \cap Range(calls[q].terms) :
         /\ calls[q].docId[1] \in PostingSet(t)
         /\ calls[p].docId[1] \notin PostingSet(t)

FullScan(s) ==
  SelectSeq(openCursor(documents, s.sortBy, s.order, None),
            LAMBDA d : checkDocumentMatch(documents[d], s.terms, s.isPhrase,
                                          s.phraseLower, s.fuzzy, s.similarTermSets,
                                          s.operator))

\* the chain of pages has ended: the last page came without nextKey
ChainEnded ==
  search.pc = "resolved" /\ search.opened /\ search.nextKey = None

\* C1: with limit >= 1, the pages of a chain that has ended are, put together,
\* the sequence a single unbounded scan returns
C1_PagesEqualScan ==
  ChainEnded /\ search.limit >= 1 =>
    search.pages \o search.items = FullScan(search)

\* C2: a page returned at the limit carries the sort key of its last document
\* as nextKey; a page returned at the end of the range carries no nextKey
C2_NextKeyIsLastMatch ==
  search.pc = "resolved" /\ search.opened =>
    IF search.cursor = <<>>
    THEN search.nextKey = None
    ELSE /\ Len(search.items) >= search.limit
         /\ search.limit >= 1 => search.items # <<>>
         /\ search.items # <<>> =>
              search.nextKey =
                SortKey(documents[search.items[Len(search.items)]], search.sortBy)
         /\ search.items = <<>> => search.nextKey = None

\* C2 witness: a first page in ascending createdAt order, returned at the limit
\* after the cursor passed a document that does not match
C2_Witness ==
  /\ search.pc = "resolved" /\ search.opened
  /\ search.cursor # <<>>
  /\ search.limit >= 1
  /\ search.sortBy = "createdAt"
  /\ search.items # <<>>
  /\ \E d \in DOMAIN documents :
       /\ ~checkDocumentMatch(documents[d], search.terms, search.isPhrase,
                              search.phraseLower, search.fuzzy, search.similarTermSets,
                              search.operator)
       /\ documents[d].createdAt # None
       /\ documents[d].createdAt[1] < search.nextKey[1]
       /\ search.order = "asc"
       /\ search.lastKey = None

(***************************************************************************)
(* Further properties of the inverted index.                               *)
(***************************************************************************)
\* C11: findDocumentsByTermsOr(terms) returns the union of the posting sets of
\* its terms: the empty set for no terms and when no term has an entry
C11_OrIsUnion ==
  \A p \in Procs :
    calls[p].op = "findDocumentsByTermsOr" /\ calls[p].pc = "done" =>
      /\ calls[p].result # None
      /\ Range(calls[p].result[1]) =
           UNION {PostingSet(calls[p].terms[k]) : k \in DOMAIN calls[p].terms}
      /\ Len(calls[p].result[1]) = Cardinality(Range(calls[p].result[1]))

\* C11 witness: a two-term query, one term without an entry, whose result is
\* the posting set of the other term, of two documents or more
C11_Witness ==
  \E p \in Procs :
    /\ calls[p].op = "findDocumentsByTermsOr" /\ calls[p].pc = "done"
    /\ Len(calls[p].terms) = 2
    /\ PostingSet(calls[p].terms[2]) = {}
    /\ Len(calls[p].result[1]) >= 2

\* C20: a findDocumentsByTermsAnd(terms) that runs while other calls write
\* resolves with the intersection of the posting sets as the store holds them
\* at the one instant its gets are served
C20_ReadsOneSnapshot ==
  [][\A p \in Procs :
       /\ calls[p].op = "findDocumentsByTermsAnd"
       /\ calls[p].pc = "andGet"
       /\ calls'[p].pc = "done"
       => Range(calls'[p].result[1]) =
            {d \in DocIds : \A k \in DOMAIN calls[p].terms :
               d \in PostingSet(calls[p].terms[k])}]_vars

\* C20 witness: a two-term query resolved with a document while an
\* indexDocument call is in progress, and the store has moved on since
C20_Witness ==
  \E p, q \in Procs :
    /\ calls[p].op = "findDocumentsByTermsAnd" /\ calls[p].pc = "done"
    /\ Len(calls[p].terms) = 2
    /\ calls[p].result[1] # <<>>
    /\ IndexCallActive(q)
    /\ Range(calls[p].result[1]) #
         {d \in DocIds : \A k \in DOMAIN calls[p].terms :
            d \in PostingSet(calls[p].terms[k])}

(***************************************************************************)
(* Properties of the match of one document (SpecMatch).                    *)
(***************************************************************************)
\* the search over the one document has returned: the document is in items
\* exactly if checkDocumentMatch accepted it
MatchDecided == search.pc = "resolved" /\ search.opened

\* the cached terms of the one document, none without a terms array
CachedTerms == IF documents[1].terms = None THEN {} ELSE Range(documents[1].terms[1])

\* C12: without exact and fuzzy, the document matches exactly if it has a terms
\* array that holds every (AND) or some (OR) term of T, where T is the query
\* terms of length >= 2 if there is one, and all query terms otherwise
C12_ExactBooleanMatch ==
  MatchDecided /\ ~search.exact /\ ~search.fuzzy =>
    LET all == Range(search.terms)
        full == {t \in all : Len(t) >= 2}
        T == IF full # {} THEN full ELSE all
    IN (search.items # <<>>) <=>
         /\ documents[1].terms # None
         /\ IF search.operator = "AND"
            THEN T \subseteq CachedTerms
            ELSE T \cap CachedTerms # {}

\* C12 witness: an AND query with a one-character term and a full word matched
\* a document whose terms hold the full word only
C12_Witness ==
  /\ MatchDecided /\ ~search.exact /\ ~search.fuzzy
  /\ search.operator = "AND"
  /\ search.items # <<>>
  /\ \E t \in Range(search.terms) : Len(t) = 1 /\ t \notin CachedTerms

\* C13: with fuzzy, the similar-term set of a query term is the vocabulary terms
\* of similarity >= 0.6 and the term itself, and the document matches exactly if
\* every (AND) or some (OR) similar-term set meets its cached terms
C13_FuzzyMatch ==
  MatchDecided /\ search.fuzzy /\ ~search.exact =>
    LET Similar(k) ==
          {t \in DOMAIN invertedIndex :
             similarityAtLeast(search.terms[k], t, SimilarityThreshold)}
            \cup {search.terms[k]}
    IN /\ search.similarTermSets # None
       /\ DOMAIN search.similarTermSets[1] = DOMAIN search.terms
       /\ \A k \in DOMAIN search.terms :
            Range(search.similarTermSets[1][k]) = Similar(k)
       /\ (search.items # <<>>) <=>
            IF search.operator = "AND"
            THEN \A k \in DOMAIN search.terms : Similar(k) \cap CachedTerms # {}
            ELSE \E k \in DOMAIN search.terms : Similar(k) \cap CachedTerms # {}

\* C13 witness: an OR query of two terms matched a document through a similar
\* term of the vocabulary, the document holding none of the query terms
C13_Witness ==
  /\ MatchDecided /\ search.fuzzy /\ ~search.exact
  /\ search.operator = "OR"
  /\ Len(search.terms) = 2
  /\ search.items # <<>>
  /\ Range(search.terms) \cap CachedTerms = {}

\* C14: with exact, the document matches exactly if its string field contains
\* the trimmed, lower-cased query as a substring of the lower-cased field
C14_PhraseMatch ==
  MatchDecided /\ search.exact =>
    ((search.items # <<>>) <=>
       includes(StrLower(documents[1].title), StrLower(trim(search.query))))

(***************************************************************************)
(* Properties of InvertedIndex.indexDocument and removeDocumentIndex.      *)
(***************************************************************************)
\* C15: indexDocument(docId, text) resolves with the terms of text, each
\* distinct term once
C15_ReturnsTerms ==
  \A p \in Procs :
    calls[p].op = "indexDocument" /\ calls[p].pc = "done" =>
      /\ calls[p].result # None
      /\ Range(calls[p].result[1]) = Range(TermSet(calls[p].doc.title))
      /\ Len(calls[p].result[1]) = Cardinality(Range(calls[p].result[1]))

\* the second of two indexDocument calls in a row with one document and text
\* has started
SecondIndexCall ==
  /\ calls[1].op = "indexDocument" /\ calls[1].pc = "done"
  /\ calls[2].op = "indexDocument"
  /\ calls[2].docId = calls[1].docId
  /\ calls[2].doc.title = calls[1].doc.title

\* C16: the second of two indexDocument(d, text) calls in a row changes no
\* posting set, no count and no doc-term row, and does not fail
C16_IndexTwiceIsOnce ==
  [][SecondIndexCall =>
       /\ invertedIndex' = invertedIndex
       /\ docTerms' = docTerms
       /\ calls'[2].pc # "failed"]_vars

\* C16 witness: the second call has completed, for a text of two terms, one of
\* them shared with another document
C16_Witness ==
  /\ SecondIndexCall
  /\ calls[2].pc = "done"
  /\ Len(calls[2].terms) = 2
  /\ \E t \in Range(calls[2].terms) : invertedIndex[t].count >= 2

\* a step of the removeDocumentIndex call in slot p
RemoveCallSteps(p) ==
  /\ calls[p].op = "removeDocumentIndex"
  /\ calls[p].pc \notin {"idle", "done", "failed"}
  /\ calls'[p] # calls[p]

\* C17: removeDocumentIndex(d) never fails; where d has no doc-term rows it
\* reads no terms and deletes no row, and for a term whose posting set does not
\* hold d it writes nothing: the removal of a document that is not indexed, or
\* was removed before, leaves both stores as they are
C17_RemoveIsIdempotent ==
  [][\A p \in Procs :
       RemoveCallSteps(p) =>
         LET d == calls[p].docId[1]
             NoRows == \A r \in docTerms : r.docId # d
         IN /\ calls'[p].pc # "failed"
            /\ calls[p].pc = "getDocumentTerms" /\ NoRows =>
                 /\ calls'[p].pc = "removeDocTerms"
                 /\ invertedIndex' = invertedIndex /\ docTerms' = docTerms
            /\ calls[p].pc = "removeDocTerms" /\ NoRows =>
                 /\ calls'[p].pc = "done"
                 /\ invertedIndex' = invertedIndex /\ docTerms' = docTerms
            /\ calls[p].pc = "rmGet" /\ d \notin PostingSet(calls[p].terms[calls[p].i[1]]) =>
                 /\ calls'[p].pc \in {"rmGet", "removeDocTerms"}
                 /\ invertedIndex' = invertedIndex /\ docTerms' = docTerms]_vars

\* C17 witness: two completed removals of one document; the second found no
\* row of it, and the document is in no posting set
C17_Witness ==
  \E p, q \in Procs :
    /\ p # q
    /\ calls[p].op = "removeDocumentIndex" /\ calls[p].pc = "done"
    /\ calls[q].op = "removeDocumentIndex" /\ calls[q].pc = "done"
    /\ calls[p].docId = calls[q].docId
    /\ calls[p].removed # <<>>
    /\ calls[q].removed = <<>>
    /\ \A t \in DOMAIN invertedIndex : calls[q].docId[1] \notin PostingSet(t)

(***************************************************************************)
(* Further properties of searchWithCursor.                                 *)
(***************************************************************************)
\* C18: a page holds at most limit items
C18_PageSizeBound ==
  search.pc = "resolved" => Len(search.items) <= search.limit

\* C19: searchWithCursor called with an empty query, with a query that is not
\* a string, or with a query without terms returns at once, with no items and
\* no nextKey
C19_InputErrorsGiveEmptyResult ==
  /\ search.pc # "none"
  /\ \/ search.query = <<>>
     \/ ~isString(search.query)
     \/ parse(search.query, search.exact).terms = <<>>
  => /\ search.pc = "resolved"
     /\ search.items = <<>>
     /\ search.nextKey = None

\* C19 witness: a query without terms returned over a document with an empty
\* terms array
C19_Witness ==
  /\ search.pc = "resolved"
  /\ search.query = <<".">>
  /\ ~search.exact
  /\ search.operator = "AND"
  /\ documents[1].terms = Some(<<>>)
  /\ search.items = <<>>

(***************************************************************************)
(* The records of the documents store.                                     *)
(***************************************************************************)
\* C21: every record of the documents store has docId, createdAt and
\* updatedAt, also after updateDocument
C21_MinimalDocumentSchema ==
  \A d \in DOMAIN documents :
    /\ documents[d].docId # None
    /\ documents[d].createdAt # None
    /\ documents[d].updatedAt # None

(***************************************************************************)
(* Fuzzy search for a misspelled term.                                     *)
(***************************************************************************)
\* C22: a fuzzy search for one term q that is not in the vocabulary, where the
\* vocabulary has exactly one term v of similarity >= 0.6 to q, returns the
\* document exactly if the search for v without fuzzy returns it.  The cached
\* terms of the document are terms of the vocabulary.
C22_FuzzyRecoversMisspelling ==
  /\ MatchDecided /\ search.fuzzy /\ ~search.exact
  /\ Len(search.terms) = 1
  /\ search.terms[1] \notin DOMAIN invertedIndex
  /\ CachedTerms \subseteq DOMAIN invertedIndex
  => LET q == search.terms[1]
         V == {v \in DOMAIN invertedIndex :
                 similarityAtLeast(q, v, SimilarityThreshold)}
     IN Cardinality(V) = 1 =>
          \A v \in V :
            (search.items # <<>>) <=>
              checkDocumentMatch(documents[1], parse(v, FALSE).terms, FALSE, None,
                                 FALSE, None, search.operator)

\* C22 witness: the fuzzy search for aab over the vocabulary {ab, b} returned
\* the document whose terms hold ab
C22_Witness ==
  /\ MatchDecided /\ search.fuzzy /\ ~search.exact
  /\ search.terms = << <<"a", "a", "b">> >>
  /\ DOMAIN invertedIndex = { <<"a", "b">>, <<"b">> }
  /\ CachedTerms = { <<"a", "b">> }
  /\ search.items # <<>>

(***************************************************************************)
(* QueryParser.parse, as searchWithCursor keeps its result.                *)
(***************************************************************************)
\* C23: for an empty or non-string query parse gives no terms and isPhrase
\* false; with exact it gives one term, the lower-cased query without the
\* white space at its ends, and isPhrase true; without exact it gives the
\* tokenizer's terms in order and isPhrase false
C23_ParseResult ==
  search.pc # "none" =>
    LET q == search.query
        low == StrLower(q)
        Trimmed(t) ==
          /\ t = <<>> \/ (~isSpace(t[1]) /\ ~isSpace(t[Len(t)]))
          /\ \E i \in 0..(Len(low) - Len(t)) :
               /\ SubSeq(low, i + 1, i + Len(t)) = t
               /\ \A k \in 1..Len(low) :
                    (k <= i \/ k > i + Len(t)) => isSpace(low[k])
    IN IF q = <<>> \/ ~isString(q)
       THEN search.terms = <<>> /\ ~search.isPhrase
       ELSE IF search.exact
       THEN Len(search.terms) = 1 /\ Trimmed(search.terms[1]) /\ search.isPhrase
       ELSE /\ Len(search.terms) = Len(tokenize(q))
            /\ \A k \in DOMAIN search.terms : search.terms[k] = tokenize(q)[k].term
            /\ ~search.isPhrase

\* C23 witness: the exact query " A.b" parsed to the one term "a.b"
C23_Witness ==
  /\ search.pc # "none"
  /\ search.exact
  /\ search.query = <<" ", "A", ".", "b">>
  /\ search.terms = << <<"a", ".", "b">> >>
  /\ search.isPhrase

(***************************************************************************)
(* MixedTokenizer on CJK text.                                             *)
(***************************************************************************)
\* C24: of a tokenized text, every CJK character is one single-character token,
\* every two adjacent CJK characters are one two-character token, and no other
\* token starts at a CJK character: a maximal run of n CJK characters gives n
\* single-character tokens, n - 1 two-character tokens, and no token of the
\* whole run when n > 2
C24_ChineseRunTokens ==
  applied.fn = "tokenize" =>
    LET text == applied.text
        tokens == applied.value
        At(k, len) == {j \in DOMAIN tokens :
                         tokens[j].position = k - 1 /\ tokens[j].length = len}
    IN \A k \in DOMAIN text :
         isChinese(text[k]) =>
           /\ Cardinality(At(k, 1)) = 1
           /\ \A j \in At(k, 1) : tokens[j].term = <<text[k]>>
           /\ IF k < Len(text) /\ isChinese(text[k + 1])
              THEN /\ Cardinality(At(k, 2)) = 1
                   /\ \A j \in At(k, 2) : tokens[j].term = SubSeq(text, k, k + 1)
              ELSE At(k, 2) = {}
           /\ \A j \in DOMAIN tokens :
                tokens[j].position = k - 1 => tokens[j].length \in {1, 2}

\* C24 witness: a run of three CJK characters gave three single characters and
\* two windows
C24_Witness ==
  /\ applied.fn = "tokenize"
  /\ applied.text = <<"zh1", "zh2", "zh1">>
  /\ Len(applied.value) = 5

(***************************************************************************)
(* levenshteinDistance and similarity.                                     *)
(***************************************************************************)
\* the strings one insertion, deletion or substitution away from s; no string
\* longer than MaxLen is needed on a shortest way between two strings of at
\* most that length
OneEdit(s) ==
  {SubSeq(s, 1, k - 1) \o SubSeq(s, k + 1, Len(s)) : k \in 1..Len(s)}
    \cup {[s EXCEPT ![k] = c] : k \in 1..Len(s), c \in TermChars}
    \cup (IF Len(s) < MaxLen
          THEN {SubSeq(s, 1, k) \o <<c>> \o SubSeq(s, k + 1, Len(s)) :
                  k \in 0..Len(s), c \in TermChars}
          ELSE {})

\* the strings at most n edits away from a string of S
RECURSIVE EditsWithin(_, _)
EditsWithin(S, n) ==
  IF n = 0 THEN S ELSE EditsWithin(S \cup UNION {OneEdit(s) : s \in S}, n - 1)

\* C25: levenshteinDistance(str1, str2) is the least number of insertions,
\* deletions and substitutions of one character that turn str1 into str2; it
\* is 0 for equal strings and the other string's length when one is empty
C25_LevenshteinIsMinimumEdits ==
  applied.fn = "levenshteinDistance" =>
    /\ applied.str2 \in EditsWithin({applied.str1}, applied.value)
    /\ applied.value > 0 =>
         applied.str2 \notin EditsWithin({applied.str1}, applied.value - 1)
    /\ applied.str1 = applied.str2 => applied.value = 0
    /\ applied.str1 = <<>> => applied.value = Len(applied.str2)
    /\ applied.str2 = <<>> => applied.value = Len(applied.str1)

\* C25 witness: a distance that takes a substitution and an insertion
C25_Witness ==
  /\ applied.fn = "levenshteinDistance"
  /\ applied.str1 = <<"a", "b">>
  /\ applied.str2 = <<"b", "b", "a">>
  /\ applied.value = 2

\* C26: similarity is at least 0 and at most 1, as the distance is at least 0
\* and at most the longer length; it is 1 for equal strings, the two empty
\* strings among them; and it is the same with the arguments exchanged
C26_SimilarityInRangeAndSymmetric ==
  applied.fn = "similarity" =>
    LET d == levenshteinDistance(applied.str1, applied.str2)
        maxLen == IF Len(applied.str1) >= Len(applied.str2)
                  THEN Len(applied.str1) ELSE Len(applied.str2)
    IN /\ 0 <= d /\ d <= maxLen
       /\ applied.value.den > 0
       /\ 0 <= applied.value.num /\ applied.value.num <= applied.value.den
       /\ applied.str1 = applied.str2 => applied.value.num = applied.value.den
       /\ applied.value = similarity(applied.str2, applied.str1)

\* C26 witness: two strings of different lengths, of similarity 1/3
C26_Witness ==
  /\ applied.fn = "similarity"
  /\ applied.str1 = <<"a">>
  /\ applied.str2 = <<"a", "b", "b">>
  /\ applied.value = [num |-> 1, den |-> 3]

(***************************************************************************)
(* findCandidatesByNGram and Sorter.sort.                                  *)
(***************************************************************************)
\* C27: findCandidatesByNGram keeps the terms whose number of matching grams of
\* the target is at least minMatches, or, without minMatches, at least 1 for a
\* target of length <= 4, 2 for length 5..7 and 3 for a longer one
C27_AdaptiveThreshold ==
  applied.fn = "findCandidatesByNGram" =>
    LET target == applied.targetTerm
        map == applied.termNGramMap
        grams == generateNGramsCombined(target)
        Tally(term) == Cardinality({k \in DOMAIN grams :
                          grams[k] \in DOMAIN map /\ term \in map[grams[k]]})
        threshold == IF applied.minMatches # None THEN applied.minMatches[1]
                     ELSE IF Len(target) <= 4 THEN 1
                     ELSE IF Len(target) <= 7 THEN 2
                     ELSE 3
    IN applied.value =
         {term \in UNION {map[g] : g \in DOMAIN map} :
            Tally(term) >= 1 /\ Tally(term) >= threshold}

\* C29: in the order Sorter.sort returns, no document without a value of the
\* sort field comes before a document with one
C29_NullsLast ==
  applied.fn = "sort" =>
    \A i, j \in DOMAIN applied.value :
      i < j /\ applied.values[applied.value[i]] = None
        => applied.values[applied.value[j]] = None

(***************************************************************************)
(* The order of the requests of one call.                                  *)
(***************************************************************************)
\* C30: a call of indexDocument or removeDocumentIndex waits for one request at
\* a time (its pc), and issues the read of a term only when it enters its
\* loop, or when the write of the term before has completed in this step, or
\* when the read of the term before found nothing to write
C30_SequentialPerTerm ==
  [][\A p \in Procs :
       LET c == calls[p]
           n == calls'[p]
           d == c.docId[1]
           Posting(store, t) ==
             IF t \in DOMAIN store THEN Range(store[t].docIds) ELSE {}
       IN /\ (n # c /\ n.pc = "addGet") =>
               \/ c.pc = "idle" /\ n.i = Some(1)
               \/ /\ c.pc \in {"addPut", "addAdd"}
                  /\ n.i = Some(c.i[1] + 1)
                  /\ d \in Posting(invertedIndex', c.terms[c.i[1]])
               \/ /\ c.pc = "addGet"
                  /\ n.i = Some(c.i[1] + 1)
                  /\ d \in Posting(invertedIndex, c.terms[c.i[1]])
          /\ (n # c /\ n.pc = "rmGet") =>
               \/ c.pc = "getDocumentTerms" /\ n.i = Some(1)
               \/ /\ c.pc \in {"rmDelete", "rmPut"}
                  /\ n.i = Some(c.i[1] + 1)
                  /\ d \notin Posting(invertedIndex', c.terms[c.i[1]])
               \/ /\ c.pc = "rmGet"
                  /\ n.i = Some(c.i[1] + 1)
                  /\ d \notin Posting(invertedIndex, c.terms[c.i[1]])]_vars

\* C30 witness: a call of indexDocument waits for the read of its second term,
\* its first term written, while a call of removeDocumentIndex waits for the
\* read of its second term
C30_Witness ==
  \E p, q \in Procs :
    /\ calls[p].op = "indexDocument" /\ calls[p].pc = "addGet"
    /\ calls[p].i = Some(2)
    /\ calls[p].docId[1] \in PostingSet(calls[p].terms[1])
    /\ calls[q].op = "removeDocumentIndex" /\ calls[q].pc = "rmGet"
    /\ calls[q].i = Some(2)

(***************************************************************************)
(* The life of an instance.                                                *)
(***************************************************************************)
\* C28: an operation called when no init() has been called, or when close()
\* was called last, is rejected as not initialized and changes no store; an
\* operation called when init() was called last and has completed is not
\* rejected as not initialized
C28_NotInitializedFails ==
  [][\A p \in Procs :
       calls[p].pc = "idle" /\ calls'[p].pc # "idle" =>
         /\ instance.lastCall \in {"none", "close"} =>
              /\ calls'[p].pc = "notInitialized"
              /\ stores' = stores
         /\ instance.lastCall = "init" /\ instance.opening = 0 =>
              calls'[p].pc # "notInitialized"]_vars


(***************************************************************************)
(* A store that already holds a posting entry with an empty document set.  *)
(***************************************************************************)
\* a database another writer left with an entry for "a" that has no document,
\* with or without a doc-term row that still names the term
InitEmptyEntry ==
  /\ invertedIndex = StorePut(EmptyStore, InvertedIndexItem(<<"a">>, <<>>, 0))
  /\ docTerms \in { {}, {DocTerm(1, <<"a">>)} }
  /\ documents = EmptyStore
  /\ docFields = EmptyStore
  /\ calls = [p \in Procs |-> IdleCall]
  /\ lastId = 0
  /\ search = NoSearch
  /\ made = 0
  /\ applied = NoApplication
  /\ instance = OpenInstance
  /\ iteration = NoIteration

SpecEmptyEntry == InitEmptyEntry /\ [][NextSeq]_vars

\* C31: when the get of addTermToIndex or removeTermFromIndex returns an entry
\* whose document set is empty, the call does not fail and the request it
\* issues next is the delete of that entry
C31_DefensiveDelete ==
  [][\A p \in Procs :
       /\ calls[p].pc \in {"addGet", "rmGet"}
       /\ calls'[p] # calls[p]
       /\ calls[p].terms[calls[p].i[1]] \in DOMAIN invertedIndex
       /\ invertedIndex[calls[p].terms[calls[p].i[1]]].docIds = <<>>
       => /\ calls'[p].pc = "rmDelete"
          /\ calls'[p].item # None
          /\ calls'[p].item[1].term = calls[p].terms[calls[p].i[1]]]_vars


(***************************************************************************)
(* Store requests that fail.                                               *)
(***************************************************************************)
\* a failing request after which the call's earlier posting-list writes are undone
StoreRequestFailsRollback(p) ==
  /\ calls[p].pc \in {"addGet", "addPut", "addAdd", "saveDocTerm"}
  /\ calls' = [calls EXCEPT ![p].pc = "failed"]
  /\ invertedIndex' =
       [t \in {u \in DOMAIN invertedIndex :
                 Range(invertedIndex[u].docIds) # {calls[p].docId[1]}} |->
          LET docIds == SetDelete(invertedIndex[t].docIds, calls[p].docId[1])
          IN InvertedIndexItem(t, docIds, Len(docIds))]
  /\ UNCHANGED <<docTerms, documents, docFields, lastId, search>>

\* request.onerror of a request of indexDocument: the promise of the request
\* rejects, no catch between it and the caller, the await loops are left
StoreRequestFails(p) ==
  /\ calls[p].pc \in {"addGet", "addPut", "addAdd", "saveDocTerm"}
  /\ calls' = [calls EXCEPT ![p].pc = "failed"]
  /\ UNCHANGED <<stores, lastId, search>>

\* indexDocument calls, each awaited before the next is made, on a store whose
\* requests may fail; made counts the failed requests
NextFail ==
  \/ \E p \in Procs, d \in DocIds, text \in Texts :
       NoCallActive /\ FreeSlot(p) /\ NextDocId(d)
         /\ indexDocument(p, d, text) /\ UNCHANGED <<made, applied, instance, iteration>>
  \/ \E p \in Procs :
       /\ AddGet(p) \/ AddPut(p) \/ AddAdd(p) \/ SaveDocTerm(p) \/ Return(p)
       /\ UNCHANGED <<made, applied, instance, iteration>>
  \/ \E p \in Procs :
       made < MaxFailures /\ made' = made + 1 /\ UNCHANGED <<applied, instance, iteration>>
         /\ StoreRequestFails(p)

SpecFail == Init /\ [][NextFail]_vars

\* C32: a request that fails in the middle of indexDocument rejects the call
\* and changes no store; a rejected call issues no further request; the
\* postings written for the terms before the failing one are still stored
C32_NoRollback ==
  /\ [](\A p \in Procs :
          calls[p].op = "indexDocument" /\ calls[p].pc = "failed" /\ calls[p].i # None
            => \A j \in 1..(calls[p].i[1] - 1) :
                 calls[p].docId[1] \in PostingSet(calls[p].terms[j]))
  /\ [][\A p \in Procs :
          calls[p].op = "indexDocument" =>
            /\ calls[p].pc # "failed" /\ calls'[p].pc = "failed" => stores' = stores
            /\ calls[p].pc = "failed" =>
                 stores' = stores /\ calls'[p].pc \in {"failed", "idle"}]_vars

\* C32 witness: the request for the second term of a call failed and the
\* posting written for the first term is in the store
C32_Witness ==
  \E p \in Procs :
    /\ calls[p].op = "indexDocument" /\ calls[p].pc = "failed"
    /\ calls[p].i = Some(2)
    /\ calls[p].docId[1] \in PostingSet(calls[p].terms[1])
    /\ calls[p].docId[1] \notin PostingSet(calls[p].terms[2])


(***************************************************************************)
(* Posting lists and doc-term rows.                                        *)
(***************************************************************************)
\* C33: when no call is in progress (calls awaited one by one, none failed),
\* the row (docId, term) is in docTerms exactly when docId is in the posting
\* set of term
C33_RowsAgreeWithPostings ==
  (\A p \in Procs : calls[p].pc \in {"idle", "done"}) =>
    /\ \A r \in docTerms : r.docId \in PostingSet(r.term)
    /\ \A t \in DOMAIN invertedIndex :
         \A d \in Range(invertedIndex[t].docIds) : DocTerm(d, t) \in docTerms

\* C33 witness: a removal of a document with two terms has completed while
\* another document still has rows and postings
C33_Witness ==
  \E p \in Procs :
    /\ calls[p].op = "removeDocumentIndex" /\ calls[p].pc = "done"
    /\ Len(calls[p].terms) = 2
    /\ docTerms # {}
    /\ \E t \in DOMAIN invertedIndex : calls[p].docId[1] \notin PostingSet(t)


C35_ConcurrentCreationNeverFails ==
  \A p \in Procs :
    ~ /\ calls[p].op = "indexDocument" /\ calls[p].pc = "failed"
      /\ calls[p].terms[calls[p].i[1]] \in DOMAIN invertedIndex
      /\ calls[p].docId[1] \notin PostingSet(calls[p].terms[calls[p].i[1]])


(***************************************************************************)
(* The chain of pages.                                                     *)
(***************************************************************************)
\* C36: on a static data set and with limit >= 1, a page that carries a nextKey
\* has it strictly beyond the lastKey it was asked with, in the direction of the
\* scan, and the chain of calls reaches a page without nextKey
C36_PaginationTerminates ==
  /\ [](search.pc = "resolved" /\ search.limit >= 1
          /\ search.nextKey # None /\ search.lastKey # None
          => IF search.order = "asc"
             THEN search.nextKey[1] > search.lastKey[1]
             ELSE search.nextKey[1] < search.lastKey[1])
  /\ (search.pc # "none" /\ search.limit >= 1)
       ~> (search.pc = "resolved" /\ search.nextKey = None)

\* C36 witness: the chain ended after three calls, two pages of one document
\* and a last page without a document
C36_Witness ==
  /\ search.pc = "resolved" /\ search.nextKey = None
  /\ search.limit = 1
  /\ Len(search.pages) = 2 /\ search.items = <<>>
  /\ search.lastKey # None


BATCH_SIZE == 50

\* resolve() and reject() of the promise iterateAll returns: the first one counts
resolve(it) == IF it.pc = "running" THEN [it EXCEPT !.pc = "resolved"] ELSE it

reject(it) == IF it.pc = "running" THEN [it EXCEPT !.pc = "rejected"] ELSE it

\* checkComplete where a callback still in progress is not looked at
checkCompleteWhileProcessing(it) ==
  IF ~it.isReading /\ it.docQueue = <<>> /\ ~it.processingError
  THEN resolve(it)
  ELSE it

checkComplete(it) ==
  IF ~it.isReading /\ it.docQueue = <<>> /\ ~it.isProcessing /\ ~it.processingError
  THEN resolve(it)
  ELSE it

\* processQueue, the head of its while loop: the next item is taken from the
\* queue and the callback is invoked for it, or the loop ends
processNext(it) ==
  IF it.docQueue # <<>>
  THEN [it EXCEPT !.docQueue = Tail(@),
                  !.pending = Append(@, Head(it.docQueue)),
                  !.invoked = Append(@, Head(it.docQueue).docId)]
  ELSE checkComplete([it EXCEPT !.isProcessing = FALSE])

processQueue(it) ==
  IF it.isProcessing THEN it ELSE processNext([it EXCEPT !.isProcessing = TRUE])

\* the callback for docId resolved: currentIndex++, the loop goes on
callbackResolved(it, docId) ==
  processNext([it EXCEPT !.pending = SelectSeq(@, LAMBDA item : item.docId # docId),
                         !.currentIndex = @ + 1])

\* the callback for docId failed: the catch block of processQueue
callbackRejected(it, docId) ==
  reject([it EXCEPT !.pending = SelectSeq(@, LAMBDA item : item.docId # docId),
                    !.processingError = TRUE,
                    !.isProcessing = FALSE])

\* request.onsuccess of the cursor of iterateAll: one cursor event.  The copy
\* JSON.parse(JSON.stringify(doc)) has the values of doc (numbers, strings,
\* arrays of strings; a property that is undefined is absent, None either way)
iterateOnsuccess(it, docs) ==
  IF it.cursor = <<>>
  THEN LET t == [it EXCEPT !.isReading = FALSE]
       IN IF t.docQueue # <<>> /\ ~t.isProcessing
          THEN processQueue(t)
          ELSE checkComplete(t)
  ELSE LET doc == docs[Head(it.cursor)]
           t == [it EXCEPT !.cursor = Tail(@),
                           !.docQueue = IF doc.docId # None
                                        THEN Append(@, [doc |-> doc, docId |-> doc.docId[1]])
                                        ELSE @]
       IN IF doc.docId # None /\ Len(t.docQueue) >= BATCH_SIZE /\ ~t.isProcessing
          THEN processQueue(t)
          ELSE t

\* iterateAll up to its first cursor event: store.openCursor()
StartIteration(docs) ==
  [pc |-> "running", cursor |-> openCursor(docs, "docId", "asc", None),
   isReading |-> TRUE, docQueue |-> <<>>, isProcessing |-> FALSE,
   processingError |-> FALSE, currentIndex |-> 0, pending |-> <<>>,
   invoked |-> <<>>]

iterateAll ==
  /\ iteration.pc = "none"
  /\ iteration' = StartIteration(documents)
  /\ UNCHANGED <<stores, calls, lastId, search, made, applied, instance>>

IterateSuccess ==
  /\ iteration.pc # "none" /\ iteration.isReading
  /\ iteration' = iterateOnsuccess(iteration, documents)
  /\ UNCHANGED <<stores, calls, lastId, search, made, applied, instance>>

\* the promise of a callback that does not use the database resolves
CallbackResolves ==
  /\ iteration.pc # "none"
  /\ \E k \in DOMAIN iteration.pending :
       iteration' = callbackResolved(iteration, iteration.pending[k].docId)
  /\ UNCHANGED <<stores, calls, lastId, search, made, applied, instance>>

\* the callback throws, or its promise rejects
CallbackRejects ==
  /\ iteration.pc # "none"
  /\ \E k \in DOMAIN iteration.pending :
       iteration' = callbackRejected(iteration, iteration.pending[k].docId)
  /\ UNCHANGED <<stores, calls, lastId, search, made, applied, instance>>

\* the documents beyond BATCH_SIZE in the largest store
MaxOverBatch == 1

\* the numbers of documents in the store: none, one, and around BATCH_SIZE
StoredCounts == {0, 1} \cup (BATCH_SIZE - 1)..(BATCH_SIZE + MaxOverBatch)

\* a documents store of n documents, no iterateAll call made yet
InitIterate ==
  /\ invertedIndex = EmptyStore
  /\ docTerms = {}
  /\ \E n \in StoredCounts :
       documents = [d \in 1..n |->
         [docId |-> Some(d), createdAt |-> Some(1), updatedAt |-> Some(1),
          title |-> <<>>, terms |-> Some(<<>>)]]
  /\ docFields = EmptyStore
  /\ calls = [p \in Procs |-> IdleCall]
  /\ lastId = 0
  /\ search = NoSearch
  /\ made = 0
  /\ applied = NoApplication
  /\ instance = OpenInstance
  /\ iteration = NoIteration

NextIterate ==
  \/ iterateAll
  \/ IterateSuccess
  \/ CallbackResolves
  \/ CallbackRejects

SpecIterate == InitIterate /\ [][NextIterate]_vars

\* C38: as long as no callback has failed, the callback is invoked for the
\* documents in cursor order, each once, never while an earlier invocation is
\* pending; the call is not left waiting for nothing, and when its promise has
\* resolved the callback has completed for every document of the store
C38_EveryDocumentOnce ==
  iteration.pc # "none" /\ ~iteration.processingError =>
    /\ \A k \in DOMAIN iteration.invoked : iteration.invoked[k] = k
    /\ Len(iteration.invoked) <= Cardinality(DOMAIN documents)
    /\ Len(iteration.pending) <= 1
    /\ iteration.currentIndex + Len(iteration.pending) = Len(iteration.invoked)
    /\ iteration.pc = "running" => iteration.isReading \/ iteration.pending # <<>>
    /\ iteration.pc = "resolved" =>
         /\ iteration.currentIndex = Cardinality(DOMAIN documents)
         /\ iteration.pending = <<>>

\* C38 witness: iterateAll has resolved on a store of more than BATCH_SIZE
\* documents, the callback completed for each
C38_Witness ==
  /\ iteration.pc = "resolved"
  /\ Cardinality(DOMAIN documents) > BATCH_SIZE
  /\ iteration.currentIndex = Cardinality(DOMAIN documents)

\* C39: once the callback has failed, iterateAll has rejected and the callback
\* is invoked for no further document
C39_StopsOnFirstFailure ==
  [][iteration.pc # "none" /\ iteration.processingError
       => /\ iteration.pc = "rejected"
          /\ iteration'.invoked = iteration.invoked]_vars


(***************************************************************************)
(* InvertedIndexDB.rebuildIndex(): count, clearIndexes, then iterateAll    *)
(* with the callback that indexes one document.  sets keeps the index and  *)
(* the documents as the call found them.                                   *)
(***************************************************************************)
rebuildIndex(p) ==
  /\ calls[p].pc = "idle"
  /\ calls' = [calls EXCEPT ![p] =
       [IdleCall EXCEPT !.op = "rebuildIndex", !.pc = "count",
          !.sets = <<[invertedIndex |-> invertedIndex, documents |-> documents]>>]]
  /\ UNCHANGED <<stores, lastId, search, iteration>>

\* const total = await this.documentsStore.count()
Count(p) ==
  /\ calls[p].pc = "count"
  /\ calls' = [calls EXCEPT ![p].pc = "clearIndexes"]
  /\ UNCHANGED <<stores, lastId, search, iteration>>

\* await this.clearIndexes(): both stores cleared, no other call in progress;
\* then iterateAll is called
ClearIndexes(p) ==
  /\ calls[p].pc = "clearIndexes"
  /\ invertedIndex' = EmptyStore
  /\ docTerms' = {}
  /\ iteration' = StartIteration(documents)
  /\ calls' = [calls EXCEPT ![p].pc = "iterateAll"]
  /\ UNCHANGED <<documents, docFields, lastId, search>>

\* the callback where every document is indexed as one without text
CallbackStartsWithoutText(p) ==
  /\ calls[p].pc = "iterateAll"
  /\ iteration.pc # "none" /\ iteration.pending # <<>>
  /\ calls' = [calls EXCEPT ![p] =
       [calls[p] EXCEPT !.docId = Some(iteration.pending[1].docId),
                        !.doc = iteration.pending[1].doc,
                        !.pc = "saveTerms"]]
  /\ UNCHANGED <<stores, lastId, search, iteration>>

\* the callback of rebuildIndex, invoked by processQueue with an item:
\* indexFields = extractIndexableFields(doc), indexDocument(docId, doc, indexFields)
\* up to its first request
CallbackStarts(p) ==
  /\ calls[p].pc = "iterateAll"
  /\ iteration.pc # "none" /\ iteration.pending # <<>>
  /\ calls' = [calls EXCEPT ![p] =
       EnterPrivateIndexDocument(
         [calls[p] EXCEPT !.docId = Some(iteration.pending[1].docId),
                          !.doc = iteration.pending[1].doc])]
  /\ UNCHANGED <<stores, lastId, search, iteration>>

\* the promise of the callback resolves: processQueue goes on
CallbackReturns(p) ==
  /\ calls[p].pc = "callbackResolved"
  /\ iteration' = callbackResolved(iteration, calls[p].docId[1])
  /\ calls' = [calls EXCEPT ![p].pc = "iterateAll"]
  /\ UNCHANGED <<stores, lastId, search>>

\* await iterateAll(...) resolved: rebuildIndex resolves
IterateResolved(p) ==
  /\ calls[p].pc = "iterateAll"
  /\ iteration.pc = "resolved"
  /\ iteration' = NoIteration
  /\ calls' = [calls EXCEPT ![p].pc = "done"]
  /\ UNCHANGED <<stores, lastId, search>>

\* the InvertedIndexDB API with rebuildIndex, each call awaited before the
\* next is made; the documents of the store are the ones addDocument added,
\* updateDocument is called for a stored document
NextRebuild ==
  \/ \E p \in Procs, title \in Titles, now \in ClockReadings :
       NoCallActive /\ FreeSlot(p) /\ addDocument(p, title, now, now)
         /\ UNCHANGED <<made, applied, instance, iteration>>
  \/ \E p \in Procs, d \in RecordIds, title \in Titles, now \in ClockReadings :
       NoCallActive /\ FreeSlot(p) /\ d \in DOMAIN documents
         /\ updateDocument(p, d, title, now)
         /\ UNCHANGED <<made, applied, instance, iteration>>
  \/ \E p \in Procs, d \in RecordIds :
       NoCallActive /\ FreeSlot(p) /\ deleteDocument(p, d)
         /\ UNCHANGED <<made, applied, instance, iteration>>
  \/ \E p \in Procs :
       NoCallActive /\ FreeSlot(p) /\ rebuildIndex(p)
         /\ UNCHANGED <<made, applied, instance>>
  \/ \E p \in Procs : DBStep(p) /\ UNCHANGED <<made, applied, instance, iteration>>
  \/ \E p \in Procs :
       /\ Count(p) \/ ClearIndexes(p) \/ CallbackStarts(p) \/ CallbackReturns(p)
            \/ IterateResolved(p)
       /\ UNCHANGED <<made, applied, instance>>
  \/ (\E p \in Procs : calls[p].op = "rebuildIndex") /\ IterateSuccess

SpecRebuild == Init /\ [][NextRebuild]_vars

====
